---- MODULE Spec2Model ----
(***************************************************************************)
(* Model of the code-review-agent: the CodeAnalyzer (unified-diff          *)
(* decomposition and line-address reconciliation) and the PRReviewService  *)
(* that drives one pull-request review.                                    *)
(*                                                                         *)
(* Text is modelled at character level: a JavaScript string is a sequence  *)
(* of one-character strings, so that split, join, startsWith, includes and *)
(* the regular expressions are computed, not assumed.                      *)
(***************************************************************************)
EXTENDS Integers, Sequences, FiniteSets, TLC

VARIABLES
    diff,          \* the DiffDocument handed to parseGitDiff
    files,         \* the FileChange list parseGitDiff returned
    sel,           \* index in files of the FileChange being reconciled (0: none)
    patch,         \* the argument of extractLineNumbers
    lines,         \* extractLineNumbers: patch.split('\n')
    idx,           \* extractLineNumbers: position of the forEach callback
    currentLine,   \* extractLineNumbers: the running line counter
    lineNumbers,   \* extractLineNumbers: the mapping built so far
    pc,            \* position of the analyzer's caller
    rpc,           \* reviewPR: position of the review
    dryRun,        \* reviewPR: the dryRun argument
    filteredFiles, \* reviewPR: filterRelevantFiles(changedFiles)
    fileIdx,       \* reviewPR: position of the for loop in the capped list
    reviews,       \* reviewPR: the reviews collected by the loop
    failures,      \* spinner.fail / logger.error: the files reported as failed
    calls,         \* the issue finder: the calls it received and how each ended
    postIdx,       \* postReviews: position in allComments
    posted,        \* the comment sink: the comments GitHub accepted
    displayed,     \* displayReviews: the comments printed on the console
    failCause,     \* the call whose error reviewPR rethrew ("none": no error)
    prNumber,      \* reviewPR: the pull request under review (0: none)
    postedTo,      \* the comment sink: the pull request of each accepted comment
    outFiles,      \* the analyzer's caller: the FileChange lists parseGitDiff returned
    outMaps,       \* the analyzer's caller: the mappings extractLineNumbers returned
    runs,          \* the webhook server: the locals of each reviewPR invocation
    sink,          \* the webhook server: what GitHub accepted, with the invocation
                   \* that posted it
    model,         \* OpenAIService: this.model (OPENAI_MODEL)
    prompt,        \* makeOpenAIRequest: the prompt argument
    stack,         \* makeOpenAIRequest: the invocations in progress, outermost first
    requests,      \* the provider: the chat.completions.create calls it received
    caught,        \* makeOpenAIRequest: the provider errors its catch received
    opc,           \* makeOpenAIRequest: position of the outermost invocation
    outcome        \* makeOpenAIRequest: what the outermost invocation settled with

avars == <<diff, files, sel, patch, lines, idx, currentLine, lineNumbers, pc>>
rvars == <<rpc, dryRun, filteredFiles, fileIdx, reviews, failures, calls,
           postIdx, posted, displayed, failCause, prNumber, postedTo>>
vars == <<diff, files, sel, patch, lines, idx, currentLine, lineNumbers, pc,
          rpc, dryRun, filteredFiles, fileIdx, reviews, failures, calls,
          postIdx, posted, displayed, failCause, prNumber, postedTo,
          outFiles, outMaps, runs, sink,
          model, prompt, stack, requests, caught, opc, outcome>>
\* the state of one makeOpenAIRequest call
ovars == <<model, prompt, stack, requests, caught, opc, outcome>>
\* the state beyond one analyzer call and one review
xvars == <<outFiles, outMaps, runs, sink,
           model, prompt, stack, requests, caught, opc, outcome>>

\* the answer makeOpenAIRequest has before it settles
Unsettled == [kind |-> "none"]

\* no makeOpenAIRequest call is going on
NoRequest ==
    /\ model = ""
    /\ prompt = ""
    /\ stack = <<>>
    /\ requests = <<>>
    /\ caught = <<>>
    /\ opc = "idle"
    /\ outcome = Unsettled

\* nothing beyond one analyzer call or one review is going on
NoOthers ==
    /\ outFiles = <<>>
    /\ outMaps = <<>>
    /\ runs = <<>>
    /\ sink = <<>>
    /\ NoRequest

----------------------------------------------------------------------------
(* Bounds of the explored inputs.                                          *)
MaxPatchLines == 4
MaxDiffLines == 3
MaxReviewSections == 3
MaxInvocations == 2

----------------------------------------------------------------------------
(* JavaScript string primitives.                                           *)

Digit == {"0", "1", "2", "3", "4", "5", "6", "7", "8", "9"}

DigitVal(c) ==
    CASE c = "0" -> 0 [] c = "1" -> 1 [] c = "2" -> 2 [] c = "3" -> 3
      [] c = "4" -> 4 [] c = "5" -> 5 [] c = "6" -> 6 [] c = "7" -> 7
      [] c = "8" -> 8 [] c = "9" -> 9

\* p occurs in s at position i
occursAt(s, i, p) ==
    /\ i >= 1
    /\ i + Len(p) - 1 <= Len(s)
    /\ SubSeq(s, i, i + Len(p) - 1) = p

\* String.prototype.startsWith
startsWith(s, p) == occursAt(s, 1, p)

\* String.prototype.includes
includes(s, p) == \E i \in 1..Len(s) : occursAt(s, i, p)

\* the least element of a non-empty set of integers
least(S) == CHOOSE x \in S : \A y \in S : x <= y

\* the greatest element of a non-empty set of integers
greatest(S) == CHOOSE x \in S : \A y \in S : x >= y

\* String.prototype.split with a one-character separator
RECURSIVE split(_, _)
split(s, sep) ==
    LET at == {i \in 1..Len(s) : s[i] = sep}
    IN  IF at = {}
        THEN <<s>>
        ELSE <<SubSeq(s, 1, least(at) - 1)>>
                 \o split(SubSeq(s, least(at) + 1, Len(s)), sep)

\* Array.prototype.join with a one-character separator
RECURSIVE join(_, _)
join(ls, sep) ==
    IF Len(ls) = 0 THEN <<>>
    ELSE IF Len(ls) = 1 THEN ls[1]
    ELSE ls[1] \o <<sep>> \o join(Tail(ls), sep)

\* The characters String.prototype.trim removes that the inputs can contain.
WhiteSpace == {" ", "\n", "\t", "\r"}

\* !section.trim()
trimIsEmpty(s) == \A i \in 1..Len(s) : s[i] \in WhiteSpace

\* first position at or after i that holds no digit (greedy \d*)
skipDigits(s, i) ==
    LET stops == {j \in i..(Len(s) + 1) : j = Len(s) + 1 \/ s[j] \notin Digit}
    IN  least(stops)

\* an optional single character (the regex ,?)
skipOpt(s, i, c) == IF i <= Len(s) /\ s[i] = c THEN i + 1 ELSE i

\* parseInt of a run of decimal digits
RECURSIVE parseInt(_)
parseInt(ds) ==
    IF Len(ds) = 0 THEN 0
    ELSE 10 * parseInt(SubSeq(ds, 1, Len(ds) - 1)) + DigitVal(ds[Len(ds)])

----------------------------------------------------------------------------
(* CodeAnalyzer.extractLineNumbers                                         *)

\* line.match(/^@@ -\d+,?\d* \+(\d+),?\d* @@/): whether it matches, and group 1
hunkHeader(line) ==
    LET a1 == 5                              \* after "@@ -"
        a2 == skipDigits(line, a1)           \* \d+
        a3 == skipOpt(line, a2, ",")         \* ,?
        a4 == skipDigits(line, a3)           \* \d*
        b1 == a4 + 2                         \* after " +"
        b2 == skipDigits(line, b1)           \* (\d+)
        b3 == skipOpt(line, b2, ",")         \* ,?
        b4 == skipDigits(line, b3)           \* \d*
        ok == /\ startsWith(line, <<"@", "@", " ", "-">>)
              /\ a2 > a1
              /\ occursAt(line, a4, <<" ", "+">>)
              /\ b2 > b1
              /\ occursAt(line, b4, <<" ", "@", "@">>)
    IN  [matched |-> ok,
         group1  |-> IF ok THEN SubSeq(line, b1, b2 - 1) ELSE <<>>]

\* the forEach callback: the counter and the mapping after one line
extractLineStepMutNoReset(cl, ln, line) ==
    IF hunkHeader(line).matched
    THEN [currentLine |-> cl, lineNumbers |-> ln]
    ELSE IF startsWith(line, <<"+">>) /\ ~startsWith(line, <<"+", "+", "+">>)
    THEN [currentLine |-> cl + 1, lineNumbers |-> Append(ln, cl)]
    ELSE IF ~startsWith(line, <<"-">>) /\ ~startsWith(line, <<"-", "-", "-">>)
    THEN [currentLine |-> cl + 1, lineNumbers |-> ln]
    ELSE [currentLine |-> cl, lineNumbers |-> ln]

extractLineStepMutMarkerAdded(cl, ln, line) ==
    LET h == hunkHeader(line)
    IN  IF h.matched
        THEN [currentLine |-> parseInt(h.group1), lineNumbers |-> ln]
        ELSE IF startsWith(line, <<"+">>)
        THEN [currentLine |-> cl + 1, lineNumbers |-> Append(ln, cl)]
        ELSE IF ~startsWith(line, <<"-">>) /\ ~startsWith(line, <<"-", "-", "-">>)
        THEN [currentLine |-> cl + 1, lineNumbers |-> ln]
        ELSE [currentLine |-> cl, lineNumbers |-> ln]

extractLineStepMutDeletionCounts(cl, ln, line) ==
    LET h == hunkHeader(line)
    IN  IF h.matched
        THEN [currentLine |-> parseInt(h.group1), lineNumbers |-> ln]
        ELSE IF startsWith(line, <<"+">>) /\ ~startsWith(line, <<"+", "+", "+">>)
        THEN [currentLine |-> cl + 1, lineNumbers |-> Append(ln, cl)]
        ELSE [currentLine |-> cl + 1, lineNumbers |-> ln]

extractLineStepMutBadHeaderIgnored(cl, ln, line) ==
    LET h == hunkHeader(line)
    IN  IF h.matched
        THEN [currentLine |-> parseInt(h.group1), lineNumbers |-> ln]
        ELSE IF startsWith(line, <<"@", "@">>)
        THEN [currentLine |-> cl, lineNumbers |-> ln]
        ELSE IF startsWith(line, <<"+">>) /\ ~startsWith(line, <<"+", "+", "+">>)
        THEN [currentLine |-> cl + 1, lineNumbers |-> Append(ln, cl)]
        ELSE IF ~startsWith(line, <<"-">>) /\ ~startsWith(line, <<"-", "-", "-">>)
        THEN [currentLine |-> cl + 1, lineNumbers |-> ln]
        ELSE [currentLine |-> cl, lineNumbers |-> ln]

extractLineStep(cl, ln, line) ==
    LET h == hunkHeader(line)
    IN  IF h.matched
        THEN [currentLine |-> parseInt(h.group1), lineNumbers |-> ln]
        ELSE IF startsWith(line, <<"+">>) /\ ~startsWith(line, <<"+", "+", "+">>)
        THEN [currentLine |-> cl + 1, lineNumbers |-> Append(ln, cl)]
        ELSE IF ~startsWith(line, <<"-">>) /\ ~startsWith(line, <<"-", "-", "-">>)
        THEN [currentLine |-> cl + 1, lineNumbers |-> ln]
        ELSE [currentLine |-> cl, lineNumbers |-> ln]

\* the whole forEach from a given counter and mapping
RECURSIVE extractFold(_, _, _)
extractFold(cl, ln, ls) ==
    IF Len(ls) = 0 THEN ln
    ELSE LET r == extractLineStep(cl, ln, Head(ls))
         IN  extractFold(r.currentLine, r.lineNumbers, Tail(ls))

\* extractLineNumbers(patch) as a function of its argument
extractLineNumbers(p) == extractFold(1, <<>>, split(p, "\n"))

\* extractLineNumbers with the counter kept on the instance: it is set when
\* the instance is new and never reset
ExtractBeginMutKeepsCounter ==
    /\ pc = "call"
    /\ lines' = split(patch, "\n")
    /\ lineNumbers' = <<>>
    /\ currentLine' = IF currentLine = 0 THEN 1 ELSE currentLine
    /\ idx' = 1
    /\ pc' = "loop"
    /\ UNCHANGED <<diff, files, sel, patch>>
    /\ UNCHANGED rvars
    /\ UNCHANGED xvars

\* extractLineNumbers: const lines = patch.split('\n'); lineNumbers = []; currentLine = 1
ExtractBegin ==
    /\ pc = "call"
    /\ lines' = split(patch, "\n")
    /\ lineNumbers' = <<>>
    /\ currentLine' = 1
    /\ idx' = 1
    /\ pc' = "loop"
    /\ UNCHANGED <<diff, files, sel, patch>>
    /\ UNCHANGED rvars
    /\ UNCHANGED xvars

\* extractLineNumbers: one invocation of the forEach callback
ExtractLine ==
    /\ pc = "loop"
    /\ idx <= Len(lines)
    /\ LET r == extractLineStep(currentLine, lineNumbers, lines[idx])
       IN  /\ currentLine' = r.currentLine
           /\ lineNumbers' = r.lineNumbers
    /\ idx' = idx + 1
    /\ UNCHANGED <<diff, files, sel, patch, lines, pc>>
    /\ UNCHANGED rvars
    /\ UNCHANGED xvars

\* extractLineNumbers: return lineNumbers
ExtractReturn ==
    /\ pc = "loop"
    /\ idx > Len(lines)
    /\ pc' = "returned"
    /\ UNCHANGED <<diff, files, sel, patch, lines, idx, currentLine, lineNumbers>>
    /\ UNCHANGED rvars
    /\ UNCHANGED xvars

----------------------------------------------------------------------------
(* CodeAnalyzer.parseFileInfo and CodeAnalyzer.parseGitDiff                *)

\* the characters the regex dot does not match
LineTerminator == {"\n", "\r"}

\* first position at or after i that holds a line terminator (greedy .+)
skipDots(s, i) ==
    least({j \in i..(Len(s) + 1) : j = Len(s) + 1 \/ s[j] \in LineTerminator})

\* line.match(/a\/(.+) b\/(.+)/): whether it matches, and group 2
pathMatch(line) ==
    LET sep(st) == {p \in (st + 3)..Len(line) :
                       /\ occursAt(line, p, <<" ", "b", "/">>)
                       /\ skipDots(line, st + 2) >= p
                       /\ skipDots(line, p + 3) > p + 3}
        starts == {st \in 1..Len(line) :
                       occursAt(line, st, <<"a", "/">>) /\ sep(st) # {}}
    IN  IF starts = {}
        THEN [matched |-> FALSE, group2 |-> <<>>]
        ELSE LET p == greatest(sep(least(starts)))
             IN  [matched |-> TRUE,
                  group2  |-> SubSeq(line, p + 3, skipDots(line, p + 3) - 1)]

NewFileMode == <<"n", "e", "w", " ", "f", "i", "l", "e", " ", "m", "o", "d", "e">>
DeletedFileMode ==
    <<"d", "e", "l", "e", "t", "e", "d", " ", "f", "i", "l", "e", " ", "m", "o", "d", "e">>
RenameFrom == <<"r", "e", "n", "a", "m", "e", " ", "f", "r", "o", "m">>

\* scanHeader without the break at the first '@@' line
RECURSIVE scanHeaderMutNoBreak(_, _, _, _)
scanHeaderMutNoBreak(ls, i, filename, status) ==
    IF i > Len(ls)
    THEN [filename |-> filename, status |-> status, patchStartIndex |-> 0]
    ELSE LET line == ls[i]
             st == IF startsWith(line, NewFileMode) THEN "added"
                   ELSE IF startsWith(line, DeletedFileMode) THEN "deleted"
                   ELSE IF startsWith(line, RenameFrom) THEN "renamed"
                   ELSE status
             fn == IF /\ startsWith(line, <<" ", "a", "/">>)
                      /\ includes(line, <<" ", "b", "/">>)
                      /\ pathMatch(line).matched
                   THEN pathMatch(line).group2
                   ELSE filename
             rest == scanHeaderMutNoBreak(ls, i + 1, fn, st)
         IN  IF startsWith(line, <<"@", "@">>)
             THEN [filename |-> fn, status |-> rest.status, patchStartIndex |-> i]
             ELSE rest

\* parseFileInfo, the for loop from index i: the filename and status found and
\* patchStartIndex (1-based; 0 stands for the source's -1)
RECURSIVE scanHeader(_, _, _, _)
scanHeader(ls, i, filename, status) ==
    IF i > Len(ls)
    THEN [filename |-> filename, status |-> status, patchStartIndex |-> 0]
    ELSE LET line == ls[i]
             m == pathMatch(line)
             fn == IF /\ startsWith(line, <<" ", "a", "/">>)
                      /\ includes(line, <<" ", "b", "/">>)
                      /\ m.matched
                   THEN m.group2
                   ELSE filename
             st == IF startsWith(line, NewFileMode) THEN "added"
                   ELSE IF startsWith(line, DeletedFileMode) THEN "deleted"
                   ELSE IF startsWith(line, RenameFrom) THEN "renamed"
                   ELSE status
         IN  IF startsWith(line, <<"@", "@">>)
             THEN [filename |-> fn, status |-> st, patchStartIndex |-> i]
             ELSE scanHeader(ls, i + 1, fn, st)

\* countAdditions without the '+++' exclusion
countAdditionsMutMarkers(patchLines) ==
    Cardinality({i \in 1..Len(patchLines) : startsWith(patchLines[i], <<"+">>)})

\* parseFileInfo: the addition count of the patch lines
countAdditions(patchLines) ==
    Cardinality({i \in 1..Len(patchLines) :
        startsWith(patchLines[i], <<"+">>)
            /\ ~startsWith(patchLines[i], <<"+", "+", "+">>)})

\* countDeletions without the '---' exclusion
countDeletionsMutMarkers(patchLines) ==
    Cardinality({i \in 1..Len(patchLines) :
        /\ ~(startsWith(patchLines[i], <<"+">>)
                /\ ~startsWith(patchLines[i], <<"+", "+", "+">>))
        /\ startsWith(patchLines[i], <<"-">>)})

\* parseFileInfo: the deletion count of the patch lines
countDeletions(patchLines) ==
    Cardinality({i \in 1..Len(patchLines) :
        /\ ~(startsWith(patchLines[i], <<"+">>)
                /\ ~startsWith(patchLines[i], <<"+", "+", "+">>))
        /\ startsWith(patchLines[i], <<"-">>)
        /\ ~startsWith(patchLines[i], <<"-", "-", "-">>)})

\* the null parseFileInfo returns for a section without filename
Null == [null |-> TRUE]
isNull(x) == "null" \in DOMAIN x

\* parseFileInfo returning null for a section without hunks
parseFileInfoMutDropsHunkless(ls) ==
    LET h == scanHeader(ls, 1, <<>>, "modified")
        patchLines == SubSeq(ls, h.patchStartIndex, Len(ls))
    IN  IF h.filename = <<>> \/ h.patchStartIndex = 0
        THEN Null
        ELSE [filename  |-> h.filename,
              status    |-> h.status,
              additions |-> countAdditions(patchLines),
              deletions |-> countDeletions(patchLines),
              patch     |-> join(patchLines, "\n")]

parseFileInfo(ls) ==
    LET h == scanHeader(ls, 1, <<>>, "modified")
        patchLines == IF h.patchStartIndex >= 1
                      THEN SubSeq(ls, h.patchStartIndex, Len(ls))
                      ELSE <<>>
    IN  IF h.filename = <<>>
        THEN Null
        ELSE [filename  |-> h.filename,
              status    |-> h.status,
              additions |-> IF h.patchStartIndex >= 1 THEN countAdditions(patchLines) ELSE 0,
              deletions |-> IF h.patchStartIndex >= 1 THEN countDeletions(patchLines) ELSE 0,
              patch     |-> IF h.patchStartIndex >= 1 THEN join(patchLines, "\n") ELSE <<>>]

DiffGit == <<"d", "i", "f", "f", " ", "-", "-", "g", "i", "t">>

\* /^diff --git/m matches at position p of s
separatorAt(s, p) ==
    /\ p = 1 \/ s[p - 1] \in LineTerminator
    /\ occursAt(s, p, DiffGit)

\* diff.split(/^diff --git/m), the pieces from position start on
RECURSIVE splitSections(_, _)
splitSections(s, start) ==
    LET ms == {p \in start..Len(s) : separatorAt(s, p)}
    IN  IF ms = {}
        THEN <<SubSeq(s, start, Len(s))>>
        ELSE <<SubSeq(s, start, least(ms) - 1)>>
                 \o splitSections(s, least(ms) + Len(DiffGit))

\* sectionStep inserting at the front of the list
sectionStepMutPrepend(fs, section) ==
    IF trimIsEmpty(section)
    THEN fs
    ELSE LET fileInfo == parseFileInfo(split(section, "\n"))
         IN  IF isNull(fileInfo) THEN fs ELSE <<fileInfo>> \o fs

\* the forEach callback of parseGitDiff: files after one section
sectionStep(fs, section) ==
    IF trimIsEmpty(section)
    THEN fs
    ELSE LET fileInfo == parseFileInfo(split(section, "\n"))
         IN  IF isNull(fileInfo) THEN fs ELSE Append(fs, fileInfo)

RECURSIVE sectionFold(_, _)
sectionFold(fs, sections) ==
    IF Len(sections) = 0 THEN fs
    ELSE sectionFold(sectionStep(fs, Head(sections)), Tail(sections))

parseGitDiff(d) == sectionFold(<<>>, splitSections(d, 1))

\* await codeAnalyzer.parseGitDiff(diff)
ParseGitDiff ==
    /\ pc = "start"
    /\ files' = parseGitDiff(diff)
    /\ pc' = "parsed"
    /\ UNCHANGED <<diff, sel, patch, lines, idx, currentLine, lineNumbers>>
    /\ UNCHANGED rvars
    /\ UNCHANGED xvars

\* codeAnalyzer.extractLineNumbers(file.patch) for one FileChange of the result
Reconcile ==
    /\ pc = "parsed"
    /\ \E k \in 1..Len(files) :
          /\ sel' = k
          /\ patch' = files[k].patch
          /\ lineNumbers' = extractLineNumbers(files[k].patch)
    /\ pc' = "reconciled"
    /\ UNCHANGED <<diff, files, lines, idx, currentLine>>
    /\ UNCHANGED rvars
    /\ UNCHANGED xvars

----------------------------------------------------------------------------
(* Inputs: physical diff lines.                                            *)

HunkA == <<"@", "@", " ", "-", "1", ",", "3", " ", "+", "1", ",", "4", " ", "@", "@">>
HunkB == <<"@", "@", " ", "-", "1", "0", ",", "2", " ", "+", "2", "0", ",", "2", " ", "@", "@">>
HunkC == <<"@", "@", " ", "-", "1", ",", "2", " ", "+", "1", ",", "2", " ", "@", "@">>
HunkD == <<"@", "@", " ", "-", "5", " ", "+", "7", " ", "@", "@", " ", "f">>
HunkBad == <<"@", "@", " ", "b", "a", "d">>
Context == <<" ", "c">>
Added == <<"+", "a">>
Removed == <<"-", "r">>
PlusMarker == <<"+", "+", "+", " ", "b", "/", "f">>
MinusMarker == <<"-", "-", "-", " ", "a", "/", "f">>

PatchPool ==
    {HunkA, HunkB, HunkD, HunkBad, Context, Added, Removed, PlusMarker, MinusMarker}

SeqsUpTo(S, n) == UNION {[1..k -> S] : k \in 0..n}

\* the two patches the specification quotes
PatchExample1 ==
    join(<<HunkA, Context, Added, Context, Added, Removed, Context>>, "\n")
PatchExample2 ==
    join(<<HunkC, Context, Added, HunkB, Context, Added, <<>>>>, "\n")

PatchInputs ==
    {join(ls, "\n") : ls \in SeqsUpTo(PatchPool, MaxPatchLines)}
        \cup {PatchExample1, PatchExample2}

----------------------------------------------------------------------------
(* extractLineNumbers applied to arbitrary patch text.                     *)

\* no review is running
NoReview ==
    /\ rpc = "idle"
    /\ dryRun = FALSE
    /\ filteredFiles = <<>>
    /\ fileIdx = 0
    /\ reviews = <<>>
    /\ failures = <<>>
    /\ calls = <<>>
    /\ postIdx = 0
    /\ posted = <<>>
    /\ displayed = <<>>
    /\ failCause = "none"
    /\ prNumber = 0
    /\ postedTo = <<>>

InitPatch ==
    /\ NoReview
    /\ NoOthers
    /\ patch \in PatchInputs
    /\ diff = <<>>
    /\ files = <<>>
    /\ sel = 0
    /\ lines = <<>>
    /\ idx = 0
    /\ currentLine = 0
    /\ lineNumbers = <<>>
    /\ pc = "call"

NextPatch == ExtractBegin \/ ExtractLine \/ ExtractReturn

SpecPatch == InitPatch /\ [][NextPatch]_vars

----------------------------------------------------------------------------
(* parseGitDiff applied to arbitrary diff text, then reconciliation.       *)

SepJs ==
    <<"d", "i", "f", "f", " ", "-", "-", "g", "i", "t",
      " ", "a", "/", "f", ".", "j", "s", " ", "b", "/", "f", ".", "j", "s">>
SepMd ==
    <<"d", "i", "f", "f", " ", "-", "-", "g", "i", "t",
      " ", "a", "/", "g", ".", "m", "d", " ", "b", "/", "g", ".", "m", "d">>
SepBare == DiffGit
NewFileLine == <<"n", "e", "w", " ", "f", "i", "l", "e", " ", "m", "o", "d", "e", " ", "1">>
DeletedFileLine ==
    <<"d", "e", "l", "e", "t", "e", "d", " ", "f", "i", "l", "e", " ", "m", "o", "d", "e", " ", "1">>
RenameFromLine == <<"r", "e", "n", "a", "m", "e", " ", "f", "r", "o", "m", " ", "g">>

DiffPool ==
    {SepJs, SepMd, SepBare, NewFileLine, DeletedFileLine, RenameFromLine,
     HunkA, HunkBad, Context, Added, Removed, PlusMarker, MinusMarker}

\* the text of a diff given by its physical lines, each ended by a newline
RECURSIVE textOf(_)
textOf(ls) == IF Len(ls) = 0 THEN <<>> ELSE Head(ls) \o <<"\n">> \o textOf(Tail(ls))

\* a diff document is empty or begins with the separator line of its first
\* file section, followed by up to MaxDiffLines further lines
DiffInputs ==
    {<<>>} \cup {textOf(<<sep>> \o ls) :
                    sep \in {SepJs, SepMd, SepBare}, ls \in SeqsUpTo(DiffPool, MaxDiffLines)}

InitDiff ==
    /\ NoReview
    /\ NoOthers
    /\ diff \in DiffInputs
    /\ files = <<>>
    /\ sel = 0
    /\ patch = <<>>
    /\ lines = <<>>
    /\ idx = 0
    /\ currentLine = 0
    /\ lineNumbers = <<>>
    /\ pc = "start"

NextDiff == ParseGitDiff \/ Reconcile

SpecDiff == InitDiff /\ [][NextDiff]_vars

----------------------------------------------------------------------------
(* PRReviewService                                                         *)

\* this.maxFilesPerReview and this.maxDiffSize as configured for the runs
\* explored (MAX_FILES_PER_REVIEW=2, MAX_DIFF_SIZE=24)
maxFilesPerReview == 2
maxDiffSize == 24

UpperCase ==
    <<"A", "B", "C", "D", "E", "F", "G", "H", "I", "J", "K", "L", "M",
      "N", "O", "P", "Q", "R", "S", "T", "U", "V", "W", "X", "Y", "Z">>
LowerCase ==
    <<"a", "b", "c", "d", "e", "f", "g", "h", "i", "j", "k", "l", "m",
      "n", "o", "p", "q", "r", "s", "t", "u", "v", "w", "x", "y", "z">>

\* String.prototype.toLowerCase
toLowerCase(s) ==
    [i \in 1..Len(s) |->
        IF \E k \in 1..26 : UpperCase[k] = s[i]
        THEN LowerCase[CHOOSE k \in 1..26 : UpperCase[k] = s[i]]
        ELSE s[i]]

\* '.' + filename.split('.').pop()
getFileExtension(filename) ==
    LET parts == split(filename, ".") IN <<".">> \o parts[Len(parts)]

relevantExtensions ==
    {<<".", "t", "s">>, <<".", "j", "s">>, <<".", "t", "s", "x">>,
     <<".", "j", "s", "x">>, <<".", "h", "t", "m", "l">>,
     <<".", "s", "c", "s", "s">>, <<".", "c", "s", "s">>, <<".", "c", "s">>,
     <<".", "v", "b">>, <<".", "f", "s">>, <<".", "r", "a", "z", "o", "r">>,
     <<".", "c", "s", "h", "t", "m", "l">>, <<".", "j", "s", "o", "n">>,
     <<".", "x", "m", "l">>, <<".", "y", "m", "l">>, <<".", "y", "a", "m", "l">>}

\* isRelevantFile(language, extension); the language is not consulted
isRelevantFile(extension) == toLowerCase(extension) \in relevantExtensions

\* every changed file is kept
filterRelevantFilesMutKeepsAll(fs) == fs

filterRelevantFiles(fs) ==
    LET keep(f) == isRelevantFile(getFileExtension(f.filename))
    IN  SelectSeq(fs, keep)

\* the loop iterates over the whole filtered list
cappedFilesMutNoCap == filteredFiles

\* filteredFiles.slice(0, this.maxFilesPerReview)
cappedFiles ==
    SubSeq(filteredFiles, 1,
           IF Len(filteredFiles) > maxFilesPerReview
           THEN maxFilesPerReview ELSE Len(filteredFiles))

\* reviewFile without the size test
reachesAnalyzeCodeMutNoSizeCap(file) ==
    /\ isRelevantFile(getFileExtension(file.filename))
    /\ file.patch # <<>>

\* reviewFile without the test for an empty diff
reachesAnalyzeCodeMutNoEmptyTest(file) ==
    /\ isRelevantFile(getFileExtension(file.filename))
    /\ Len(file.patch) <= maxDiffSize

\* reviewFile reaches the analyzeCode call (it returns null otherwise)
reachesAnalyzeCode(file) ==
    /\ isRelevantFile(getFileExtension(file.filename))
    /\ file.patch # <<>>
    /\ Len(file.patch) <= maxDiffSize

\* formatComment(issue): the severity emoji chosen and the title shown
formatComment(issue) ==
    [emoji |-> IF issue.severity \in {"high", "medium", "low", "info"}
               THEN issue.severity ELSE "info",
     title |-> issue.title]

\* the comment for one issue, its line corrected against the LineMapping of
\* the file's patch
commentOfMutChecksLine(issue, file) ==
    [path     |-> file.filename,
     line     |-> IF /\ "line" \in DOMAIN issue
                     /\ \E k \in 1..Len(extractLineNumbers(file.patch)) :
                           extractLineNumbers(file.patch)[k] = issue.line
                  THEN issue.line ELSE 1,
     body     |-> formatComment(issue),
     severity |-> IF issue.severity = "" THEN "info" ELSE issue.severity]

\* the comment parseAnalysisToComments builds for one issue
commentOf(issue, file) ==
    [path     |-> file.filename,
     line     |-> IF "line" \in DOMAIN issue /\ issue.line # 0
                  THEN issue.line ELSE 1,
     body     |-> formatComment(issue),
     severity |-> IF issue.severity = "" THEN "info" ELSE issue.severity]

\* only the first issue of the analysis becomes a comment
parseAnalysisToCommentsMutFirstOnly(analysis, file) ==
    IF "issues" \in DOMAIN analysis /\ Len(analysis.issues) > 0
    THEN <<commentOf(analysis.issues[1], file)>>
    ELSE <<>>

parseAnalysisToComments(analysis, file) ==
    IF "issues" \in DOMAIN analysis
    THEN [k \in 1..Len(analysis.issues) |-> commentOf(analysis.issues[k], file)]
    ELSE <<>>

\* reviews.flatMap(review => review.comments)
RECURSIVE flatMapComments(_)
flatMapComments(rs) ==
    IF Len(rs) = 0 THEN <<>> ELSE Head(rs).comments \o flatMapComments(Tail(rs))

\* what the issue finder can answer: an issue has a title, a severity
\* ("": none reported) and, unless it reports none, a line
Issue1 == [line |-> 3, title |-> "t1", severity |-> "high"]
Issue2 == [line |-> 99, title |-> "t2", severity |-> ""]
Issue3 == [line |-> 0, title |-> "t3", severity |-> "low"]
Issue4 == [title |-> "t4", severity |-> "info"]
Analyses ==
    {[summary |-> "fine"], [issues |-> <<Issue1>>], [issues |-> <<Issue2, Issue3>>],
     [issues |-> <<Issue4>>]}
\* the answer field of a call that has not returned one
NoAnswer == [none |-> TRUE]

\* the diff documents the diff source can supply: up to MaxReviewSections
\* file sections
SepUpperTs ==
    <<"d", "i", "f", "f", " ", "-", "-", "g", "i", "t",
      " ", "a", "/", "h", ".", "T", "S", " ", "b", "/", "h", ".", "T", "S">>
SepCs ==
    <<"d", "i", "f", "f", " ", "-", "-", "g", "i", "t",
      " ", "a", "/", "k", ".", "c", "s", " ", "b", "/", "k", ".", "c", "s">>
SepTs ==
    <<"d", "i", "f", "f", " ", "-", "-", "g", "i", "t",
      " ", "a", "/", "m", ".", "t", "s", " ", "b", "/", "m", ".", "t", "s">>

SectionPool ==
    {textOf(<<SepJs, HunkA, Added>>),
     textOf(<<SepMd, HunkA, Added>>),
     textOf(<<SepUpperTs, HunkA, Added, Context, Added>>),
     textOf(<<SepCs, NewFileLine>>),
     textOf(<<SepTs, HunkA, Context, Added>>)}

RECURSIVE concat(_)
concat(ss) == IF Len(ss) = 0 THEN <<>> ELSE Head(ss) \o concat(Tail(ss))

ReviewDiffs == {concat(ss) : ss \in SeqsUpTo(SectionPool, MaxReviewSections)}

\* the pull requests reviewPR can be asked to review
PullRequests == {1, 2}

avarsIdle == <<sel, patch, lines, idx, currentLine, lineNumbers, pc>>

\* getPRDetails resolves
GetPRDetailsReturns ==
    /\ rpc = "details"
    /\ rpc' = "diff"
    /\ UNCHANGED <<diff, files, dryRun, filteredFiles, fileIdx, reviews, failures,
                   calls, postIdx, posted, displayed, failCause>>
    /\ UNCHANGED <<prNumber, postedTo>>
    /\ UNCHANGED avarsIdle
    /\ UNCHANGED xvars

\* getPRDetails rejects: reviewPR's catch rethrows
GetPRDetailsThrows ==
    /\ rpc = "details"
    /\ rpc' = "failed"
    /\ failCause' = "details"
    /\ UNCHANGED <<diff, files, dryRun, filteredFiles, fileIdx, reviews, failures,
                   calls, postIdx, posted, displayed>>
    /\ UNCHANGED <<prNumber, postedTo>>
    /\ UNCHANGED avarsIdle
    /\ UNCHANGED xvars

\* getPRDiff resolves: the diff is split and filtered; reviewPR returns when
\* no relevant file remains, and enters the loop otherwise
GetPRDiffReturns ==
    /\ rpc = "diff"
    /\ \E d \in ReviewDiffs :
          /\ diff' = d
          /\ files' = parseGitDiff(d)
          /\ filteredFiles' = filterRelevantFiles(parseGitDiff(d))
    /\ IF Len(filteredFiles') = 0
       THEN rpc' = "noRelevantFiles" /\ fileIdx' = 0
       ELSE rpc' = "loop" /\ fileIdx' = 1
    /\ UNCHANGED <<dryRun, reviews, failures, calls, postIdx, posted, displayed,
                   failCause>>
    /\ UNCHANGED <<prNumber, postedTo>>
    /\ UNCHANGED avarsIdle
    /\ UNCHANGED xvars

\* getPRDiff rejects and reviewPR goes on as if no file had changed
GetPRDiffThrowsMutSwallows ==
    /\ rpc = "diff"
    /\ rpc' = "noRelevantFiles"
    /\ failCause' = "diff"
    /\ UNCHANGED <<diff, files, dryRun, filteredFiles, fileIdx, reviews, failures,
                   calls, postIdx, posted, displayed>>
    /\ UNCHANGED <<prNumber, postedTo>>
    /\ UNCHANGED avarsIdle
    /\ UNCHANGED xvars

\* getPRDiff rejects: reviewPR's catch rethrows
GetPRDiffThrows ==
    /\ rpc = "diff"
    /\ rpc' = "failed"
    /\ failCause' = "diff"
    /\ UNCHANGED <<diff, files, dryRun, filteredFiles, fileIdx, reviews, failures,
                   calls, postIdx, posted, displayed>>
    /\ UNCHANGED <<prNumber, postedTo>>
    /\ UNCHANGED avarsIdle
    /\ UNCHANGED xvars

\* the loop body for a file reviewFile returns null for: no call is made
ReviewFileSkips ==
    /\ rpc = "loop"
    /\ fileIdx <= Len(cappedFiles)
    /\ ~reachesAnalyzeCode(cappedFiles[fileIdx])
    /\ fileIdx' = fileIdx + 1
    /\ UNCHANGED <<diff, files, rpc, dryRun, filteredFiles, reviews, failures, calls,
                   postIdx, posted, displayed, failCause>>
    /\ UNCHANGED <<prNumber, postedTo>>
    /\ UNCHANGED avarsIdle
    /\ UNCHANGED xvars

\* the loop body starts the call and goes on to the next file without awaiting
ReviewFileCallsMutNoAwait ==
    /\ rpc = "loop"
    /\ fileIdx <= Len(cappedFiles)
    /\ reachesAnalyzeCode(cappedFiles[fileIdx])
    /\ calls' = Append(calls, [filename |-> cappedFiles[fileIdx].filename,
                               patch    |-> cappedFiles[fileIdx].patch,
                               result   |-> "pending",
                               answer   |-> NoAnswer])
    /\ fileIdx' = fileIdx + 1
    /\ UNCHANGED <<diff, files, rpc, dryRun, filteredFiles, reviews, failures,
                   postIdx, posted, displayed, failCause>>
    /\ UNCHANGED <<prNumber, postedTo>>
    /\ UNCHANGED avarsIdle
    /\ UNCHANGED xvars

\* the loop body up to await openaiService.analyzeCode(diff, context)
ReviewFileCalls ==
    /\ rpc = "loop"
    /\ fileIdx <= Len(cappedFiles)
    /\ reachesAnalyzeCode(cappedFiles[fileIdx])
    /\ calls' = Append(calls, [filename |-> cappedFiles[fileIdx].filename,
                               patch    |-> cappedFiles[fileIdx].patch,
                               result   |-> "pending",
                               answer   |-> NoAnswer])
    /\ rpc' = "analyzing"
    /\ UNCHANGED <<diff, files, dryRun, filteredFiles, fileIdx, reviews, failures,
                   postIdx, posted, displayed, failCause>>
    /\ UNCHANGED <<prNumber, postedTo>>
    /\ UNCHANGED avarsIdle
    /\ UNCHANGED xvars

\* analyzeCode resolves and the comments of the file are shown at once
AnalyzeCodeReturnsMutPublishesAtOnce ==
    /\ rpc = "analyzing"
    /\ \E analysis \in Analyses :
          LET file == cappedFiles[fileIdx]
              comments == parseAnalysisToComments(analysis, file)
          IN  /\ reviews' = IF Len(comments) > 0
                            THEN Append(reviews, [filename |-> file.filename,
                                                  comments |-> comments,
                                                  analysis |-> analysis])
                            ELSE reviews
              /\ displayed' = displayed \o comments
              /\ calls' = [calls EXCEPT ![Len(calls)].result = "returned",
                                          ![Len(calls)].answer = analysis]
    /\ fileIdx' = fileIdx + 1
    /\ rpc' = "loop"
    /\ UNCHANGED <<diff, files, dryRun, filteredFiles, failures, postIdx, posted,
                   failCause>>
    /\ UNCHANGED <<prNumber, postedTo>>
    /\ UNCHANGED avarsIdle
    /\ UNCHANGED xvars

\* analyzeCode resolves: the comments are built and the review is kept when
\* it has comments
AnalyzeCodeReturns ==
    /\ rpc = "analyzing"
    /\ \E analysis \in Analyses :
          LET file == cappedFiles[fileIdx]
              comments == parseAnalysisToComments(analysis, file)
          IN  /\ reviews' = IF Len(comments) > 0
                            THEN Append(reviews, [filename |-> file.filename,
                                                  comments |-> comments,
                                                  analysis |-> analysis])
                            ELSE reviews
              /\ calls' = [calls EXCEPT ![Len(calls)].result = "returned",
                                          ![Len(calls)].answer = analysis]
    /\ fileIdx' = fileIdx + 1
    /\ rpc' = "loop"
    /\ UNCHANGED <<diff, files, dryRun, filteredFiles, failures, postIdx, posted,
                   displayed, failCause>>
    /\ UNCHANGED <<prNumber, postedTo>>
    /\ UNCHANGED avarsIdle
    /\ UNCHANGED xvars

\* analyzeCode rejects and the loop's catch aborts the review
AnalyzeCodeThrowsMutAborts ==
    /\ rpc = "analyzing"
    /\ calls' = [calls EXCEPT ![Len(calls)].result = "threw"]
    /\ rpc' = "failed"
    /\ failCause' = "analysis"
    /\ UNCHANGED <<diff, files, dryRun, filteredFiles, fileIdx, reviews, failures,
                   postIdx, posted, displayed>>
    /\ UNCHANGED <<prNumber, postedTo>>
    /\ UNCHANGED avarsIdle
    /\ UNCHANGED xvars

\* analyzeCode rejects: the loop's catch reports the file and goes on
AnalyzeCodeThrows ==
    /\ rpc = "analyzing"
    /\ calls' = [calls EXCEPT ![Len(calls)].result = "threw"]
    /\ failures' = Append(failures, cappedFiles[fileIdx].filename)
    /\ fileIdx' = fileIdx + 1
    /\ rpc' = "loop"
    /\ UNCHANGED <<diff, files, dryRun, filteredFiles, reviews, postIdx, posted,
                   displayed, failCause>>
    /\ UNCHANGED <<prNumber, postedTo>>
    /\ UNCHANGED avarsIdle
    /\ UNCHANGED xvars

\* the loop is over and no review has comments
LoopEndsNothingToPost ==
    /\ rpc = "loop"
    /\ fileIdx > Len(cappedFiles)
    /\ Len(reviews) = 0
    /\ rpc' = "nothingToPost"
    /\ UNCHANGED <<diff, files, dryRun, filteredFiles, fileIdx, reviews, failures,
                   calls, postIdx, posted, displayed, failCause>>
    /\ UNCHANGED <<prNumber, postedTo>>
    /\ UNCHANGED avarsIdle
    /\ UNCHANGED xvars

\* the loop is over, dry run: displayReviews(reviews)
LoopEndsDisplayReviews ==
    /\ rpc = "loop"
    /\ fileIdx > Len(cappedFiles)
    /\ Len(reviews) > 0
    /\ dryRun
    /\ displayed' = flatMapComments(reviews)
    /\ rpc' = "displayed"
    /\ UNCHANGED <<diff, files, dryRun, filteredFiles, fileIdx, reviews, failures,
                   calls, postIdx, posted, failCause>>
    /\ UNCHANGED <<prNumber, postedTo>>
    /\ UNCHANGED avarsIdle
    /\ UNCHANGED xvars

\* the loop is over and postReviews is called whatever dryRun says
LoopEndsPostReviewsMutIgnoresDryRun ==
    /\ rpc = "loop"
    /\ fileIdx > Len(cappedFiles)
    /\ Len(reviews) > 0
    /\ postIdx' = 1
    /\ rpc' = IF Len(flatMapComments(reviews)) = 0 THEN "published" ELSE "posting"
    /\ UNCHANGED <<diff, files, dryRun, filteredFiles, fileIdx, reviews, failures,
                   calls, posted, displayed, failCause>>
    /\ UNCHANGED <<prNumber, postedTo>>
    /\ UNCHANGED avarsIdle
    /\ UNCHANGED xvars

\* the loop is over: postReviews up to its first postReviewComment call
LoopEndsPostReviews ==
    /\ rpc = "loop"
    /\ fileIdx > Len(cappedFiles)
    /\ Len(reviews) > 0
    /\ ~dryRun
    /\ postIdx' = 1
    /\ rpc' = IF Len(flatMapComments(reviews)) = 0 THEN "published" ELSE "posting"
    /\ UNCHANGED <<diff, files, dryRun, filteredFiles, fileIdx, reviews, failures,
                   calls, posted, displayed, failCause>>
    /\ UNCHANGED <<prNumber, postedTo>>
    /\ UNCHANGED avarsIdle
    /\ UNCHANGED xvars

\* postReviewComment(owner, repo, prNumber, comment) resolves: the sink has the
\* comment for that pull request; the next comment is posted, or postReviews
\* is over
PostReviewCommentReturns ==
    /\ rpc = "posting"
    /\ posted' = Append(posted, flatMapComments(reviews)[postIdx])
    /\ postIdx' = postIdx + 1
    /\ rpc' = IF postIdx = Len(flatMapComments(reviews)) THEN "published" ELSE "posting"
    /\ postedTo' = Append(postedTo, prNumber)
    /\ UNCHANGED <<diff, files, dryRun, filteredFiles, fileIdx, reviews, failures,
                   calls, displayed, failCause, prNumber>>
    /\ UNCHANGED avarsIdle
    /\ UNCHANGED xvars

\* postReviewComment rejects: postReviews and reviewPR rethrow
PostReviewCommentThrows ==
    /\ rpc = "posting"
    /\ rpc' = "failed"
    /\ failCause' = "post"
    /\ UNCHANGED <<diff, files, dryRun, filteredFiles, fileIdx, reviews, failures,
                   calls, postIdx, posted, displayed>>
    /\ UNCHANGED <<prNumber, postedTo>>
    /\ UNCHANGED avarsIdle
    /\ UNCHANGED xvars

\* reviewPR({owner, repo, prNumber, dryRun}) up to await getPRDetails
InitReview ==
    /\ NoOthers
    /\ rpc = "details"
    /\ dryRun \in BOOLEAN
    /\ diff = <<>>
    /\ files = <<>>
    /\ filteredFiles = <<>>
    /\ fileIdx = 0
    /\ reviews = <<>>
    /\ failures = <<>>
    /\ calls = <<>>
    /\ postIdx = 0
    /\ posted = <<>>
    /\ displayed = <<>>
    /\ failCause = "none"
    /\ prNumber \in PullRequests
    /\ postedTo = <<>>
    /\ sel = 0
    /\ patch = <<>>
    /\ lines = <<>>
    /\ idx = 0
    /\ currentLine = 0
    /\ lineNumbers = <<>>
    /\ pc = "idle"

NextReview ==
    \/ GetPRDetailsReturns
    \/ GetPRDetailsThrows
    \/ GetPRDiffReturns
    \/ GetPRDiffThrows
    \/ ReviewFileSkips
    \/ ReviewFileCalls
    \/ AnalyzeCodeReturns
    \/ AnalyzeCodeThrows
    \/ LoopEndsNothingToPost
    \/ LoopEndsDisplayReviews
    \/ LoopEndsPostReviews
    \/ PostReviewCommentReturns
    \/ PostReviewCommentThrows

Spec == InitReview /\ [][NextReview]_vars

----------------------------------------------------------------------------
(* One CodeAnalyzer instance called repeatedly on the same diff text: its  *)
(* caller keeps what each call returned.                                   *)

\* the caller calls parseGitDiff(diff) and keeps the list it returns
CallParseGitDiff ==
    /\ pc \in {"start", "parsed", "kept"}
    /\ Len(outFiles) < MaxInvocations
    /\ files' = parseGitDiff(diff)
    /\ outFiles' = Append(outFiles, parseGitDiff(diff))
    /\ pc' = "parsed"
    /\ UNCHANGED <<diff, sel, patch, lines, idx, currentLine, lineNumbers, outMaps>>
    /\ UNCHANGED <<runs, sink>>
    /\ UNCHANGED ovars
    /\ UNCHANGED rvars

\* the caller calls extractLineNumbers(file.patch) for a FileChange of the
\* list it was last given
CallExtractLineNumbers ==
    /\ pc \in {"parsed", "kept"}
    /\ Len(outMaps) < MaxInvocations
    /\ \E k \in 1..Len(files) :
          /\ sel' = k
          /\ patch' = files[k].patch
    /\ pc' = "call"
    /\ UNCHANGED <<diff, files, lines, idx, currentLine, lineNumbers, outFiles, outMaps>>
    /\ UNCHANGED <<runs, sink>>
    /\ UNCHANGED ovars
    /\ UNCHANGED rvars

\* the caller keeps the mapping extractLineNumbers returned
KeepLineNumbers ==
    /\ pc = "returned"
    /\ outMaps' = Append(outMaps, [patch |-> patch, lineNumbers |-> lineNumbers])
    /\ pc' = "kept"
    /\ UNCHANGED <<diff, files, sel, patch, lines, idx, currentLine, lineNumbers,
                   outFiles>>
    /\ UNCHANGED <<runs, sink>>
    /\ UNCHANGED ovars
    /\ UNCHANGED rvars

\* the file sections of the diff texts the caller has: patches that begin with
\* a hunk header, a patch that begins with a malformed one, and no patch
TwicePool ==
    {textOf(<<SepJs, HunkA, Added>>),
     textOf(<<SepTs, HunkB, Context, Added>>),
     textOf(<<SepMd, HunkBad, Added, Added>>),
     textOf(<<SepCs, NewFileLine>>)}

TwiceDiffs == {concat(ss) : ss \in SeqsUpTo(TwicePool, MaxReviewSections)}

InitTwice ==
    /\ NoReview
    /\ NoOthers
    /\ diff \in TwiceDiffs
    /\ files = <<>>
    /\ sel = 0
    /\ patch = <<>>
    /\ lines = <<>>
    /\ idx = 0
    /\ currentLine = 0
    /\ lineNumbers = <<>>
    /\ pc = "start"

NextTwice ==
    \/ CallParseGitDiff
    \/ CallExtractLineNumbers
    \/ ExtractBegin
    \/ ExtractLine
    \/ ExtractReturn
    \/ KeepLineNumbers

SpecTwice == InitTwice /\ [][NextTwice]_vars

----------------------------------------------------------------------------
(* The webhook server: reviewPR invocations on one PRReviewService, each   *)
(* started by a pull_request event's timer, interleaving at their awaits.  *)
(* The locals of invocation r are the record runs[r].                      *)

\* the invocations: one per pull_request event received, invocation r being
\* the one for the event of pull request r
Runs == PullRequests

\* the diffs the diff source can supply to them
WebhookPool ==
    {textOf(<<SepJs, HunkA, Added>>), textOf(<<SepTs, HunkA, Context, Added>>),
     textOf(<<SepCs, NewFileLine>>)}

WebhookDiffs ==
    {concat(<<a>>) : a \in WebhookPool}
        \cup {concat(<<textOf(<<SepJs, HunkA, Added>>),
                        textOf(<<SepTs, HunkA, Context, Added>>)>>)}

\* what the issue finder answers to them
WebhookAnalyses == {[issues |-> <<Issue1>>], [issues |-> <<Issue2, Issue3>>]}

\* filteredFiles.slice(0, this.maxFilesPerReview)
sliceOfFiltered(fs) ==
    SubSeq(fs, 1, IF Len(fs) > maxFilesPerReview THEN maxFilesPerReview ELSE Len(fs))

\* the file the for loop of invocation r is at
fileOfRun(r) == sliceOfFiltered(runs[r].filteredFiles)[runs[r].fileIdx]

\* allComments of invocation r: reviews.flatMap(review => review.comments)
allCommentsOfRun(r) == flatMapComments(runs[r].reviews)

\* what the Run actions leave alone
beyondRuns == <<avars, rvars, outFiles, outMaps, ovars>>

\* the setTimeout callback of handlePullRequestEvent: reviewPR({owner, repo,
\* prNumber, dryRun: false}) up to await getPRDetails
RunTimerFires(r) ==
    /\ runs[r].rpc = "scheduled"
    /\ runs' = [runs EXCEPT ![r].rpc = "details"]
    /\ UNCHANGED sink
    /\ UNCHANGED beyondRuns

\* getPRDetails resolves
RunGetPRDetailsReturns(r) ==
    /\ runs[r].rpc = "details"
    /\ runs' = [runs EXCEPT ![r].rpc = "diff"]
    /\ UNCHANGED sink
    /\ UNCHANGED beyondRuns

\* getPRDetails rejects: reviewPR rethrows, the timer callback logs the error
RunGetPRDetailsThrows(r) ==
    /\ runs[r].rpc = "details"
    /\ runs' = [runs EXCEPT ![r].rpc = "failed", ![r].failCause = "details"]
    /\ UNCHANGED sink
    /\ UNCHANGED beyondRuns

\* getPRDiff resolves: the diff is split and filtered
RunGetPRDiffReturns(r) ==
    /\ runs[r].rpc = "diff"
    /\ \E d \in WebhookDiffs :
          LET filtered == filterRelevantFiles(parseGitDiff(d))
          IN  runs' = [runs EXCEPT ![r].diff = d,
                                   ![r].filteredFiles = filtered,
                                   ![r].fileIdx = IF Len(filtered) = 0 THEN 0 ELSE 1,
                                   ![r].rpc = IF Len(filtered) = 0
                                              THEN "noRelevantFiles" ELSE "loop"]
    /\ UNCHANGED sink
    /\ UNCHANGED beyondRuns

\* getPRDiff rejects
RunGetPRDiffThrows(r) ==
    /\ runs[r].rpc = "diff"
    /\ runs' = [runs EXCEPT ![r].rpc = "failed", ![r].failCause = "diff"]
    /\ UNCHANGED sink
    /\ UNCHANGED beyondRuns

\* the loop body for a file reviewFile returns null for
RunReviewFileSkips(r) ==
    /\ runs[r].rpc = "loop"
    /\ runs[r].fileIdx <= Len(sliceOfFiltered(runs[r].filteredFiles))
    /\ ~reachesAnalyzeCode(fileOfRun(r))
    /\ runs' = [runs EXCEPT ![r].fileIdx = @ + 1]
    /\ UNCHANGED sink
    /\ UNCHANGED beyondRuns

\* the loop body up to await openaiService.analyzeCode(diff, context)
RunReviewFileCalls(r) ==
    /\ runs[r].rpc = "loop"
    /\ runs[r].fileIdx <= Len(sliceOfFiltered(runs[r].filteredFiles))
    /\ reachesAnalyzeCode(fileOfRun(r))
    /\ runs' = [runs EXCEPT ![r].calls = Append(@, [filename |-> fileOfRun(r).filename,
                                                    patch    |-> fileOfRun(r).patch,
                                                    result   |-> "pending",
                                                    answer   |-> NoAnswer]),
                            ![r].rpc = "analyzing"]
    /\ UNCHANGED sink
    /\ UNCHANGED beyondRuns

\* analyzeCode resolves and every invocation's reviews list gets the review
RunAnalyzeCodeReturnsMutSharedReviews(r) ==
    /\ runs[r].rpc = "analyzing"
    /\ \E analysis \in WebhookAnalyses :
          LET file == fileOfRun(r)
              comments == parseAnalysisToComments(analysis, file)
              kept(rs) == IF Len(comments) > 0
                          THEN Append(rs, [filename |-> file.filename,
                                           comments |-> comments,
                                           analysis |-> analysis])
                          ELSE rs
          IN  runs' = [q \in Runs |->
                         IF q = r
                         THEN [runs[q] EXCEPT
                                 !.reviews = kept(@),
                                 !.calls = [@ EXCEPT ![Len(@)].result = "returned",
                                                     ![Len(@)].answer = analysis],
                                 !.fileIdx = @ + 1,
                                 !.rpc = "loop"]
                         ELSE [runs[q] EXCEPT !.reviews = kept(@)]]
    /\ UNCHANGED sink
    /\ UNCHANGED beyondRuns

\* analyzeCode resolves: the review is kept in this invocation's reviews when
\* it has comments
RunAnalyzeCodeReturns(r) ==
    /\ runs[r].rpc = "analyzing"
    /\ \E analysis \in WebhookAnalyses :
          LET file == fileOfRun(r)
              comments == parseAnalysisToComments(analysis, file)
          IN  runs' = [runs EXCEPT
                         ![r].reviews = IF Len(comments) > 0
                                        THEN Append(@, [filename |-> file.filename,
                                                        comments |-> comments,
                                                        analysis |-> analysis])
                                        ELSE @,
                         ![r].calls = [@ EXCEPT ![Len(@)].result = "returned",
                                                ![Len(@)].answer = analysis],
                         ![r].fileIdx = @ + 1,
                         ![r].rpc = "loop"]
    /\ UNCHANGED sink
    /\ UNCHANGED beyondRuns

\* analyzeCode rejects: the loop's catch reports the file and goes on
RunAnalyzeCodeThrows(r) ==
    /\ runs[r].rpc = "analyzing"
    /\ runs' = [runs EXCEPT ![r].calls = [@ EXCEPT ![Len(@)].result = "threw"],
                            ![r].fileIdx = @ + 1,
                            ![r].rpc = "loop"]
    /\ UNCHANGED sink
    /\ UNCHANGED beyondRuns

\* the loop is over and no review has comments
RunLoopEndsNothingToPost(r) ==
    /\ runs[r].rpc = "loop"
    /\ runs[r].fileIdx > Len(sliceOfFiltered(runs[r].filteredFiles))
    /\ Len(runs[r].reviews) = 0
    /\ runs' = [runs EXCEPT ![r].rpc = "nothingToPost"]
    /\ UNCHANGED sink
    /\ UNCHANGED beyondRuns

\* the loop is over: postReviews up to its first postReviewComment call
RunLoopEndsPostReviews(r) ==
    /\ runs[r].rpc = "loop"
    /\ runs[r].fileIdx > Len(sliceOfFiltered(runs[r].filteredFiles))
    /\ Len(runs[r].reviews) > 0
    /\ runs' = [runs EXCEPT ![r].postIdx = 1,
                            ![r].rpc = IF Len(allCommentsOfRun(r)) = 0
                                       THEN "published" ELSE "posting"]
    /\ UNCHANGED sink
    /\ UNCHANGED beyondRuns

\* postReviewComment(owner, repo, prNumber, comment) resolves
RunPostReviewCommentReturns(r) ==
    /\ runs[r].rpc = "posting"
    /\ sink' = Append(sink, [by          |-> r,
                             pull_number |-> runs[r].prNumber,
                             comment     |-> allCommentsOfRun(r)[runs[r].postIdx]])
    /\ runs' = [runs EXCEPT ![r].postIdx = @ + 1,
                            ![r].rpc = IF runs[r].postIdx = Len(allCommentsOfRun(r))
                                       THEN "published" ELSE "posting"]
    /\ UNCHANGED beyondRuns

\* postReviewComment rejects: postReviews and reviewPR rethrow
RunPostReviewCommentThrows(r) ==
    /\ runs[r].rpc = "posting"
    /\ runs' = [runs EXCEPT ![r].rpc = "failed", ![r].failCause = "post"]
    /\ UNCHANGED sink
    /\ UNCHANGED beyondRuns

\* two pull_request events were handled: each has its timer pending
InitWebhook ==
    /\ NoReview
    /\ runs = [r \in Runs |-> [rpc |-> "scheduled", prNumber |-> r, diff |-> <<>>,
                                filteredFiles |-> <<>>, fileIdx |-> 0, reviews |-> <<>>,
                                calls |-> <<>>, postIdx |-> 0,
                                failCause |-> "none"]]
    /\ sink = <<>>
    /\ NoRequest
    /\ outFiles = <<>>
    /\ outMaps = <<>>
    /\ diff = <<>>
    /\ files = <<>>
    /\ sel = 0
    /\ patch = <<>>
    /\ lines = <<>>
    /\ idx = 0
    /\ currentLine = 0
    /\ lineNumbers = <<>>
    /\ pc = "idle"

NextWebhook ==
    \E r \in Runs :
        \/ RunTimerFires(r)
        \/ RunGetPRDetailsReturns(r)
        \/ RunGetPRDetailsThrows(r)
        \/ RunGetPRDiffReturns(r)
        \/ RunGetPRDiffThrows(r)
        \/ RunReviewFileSkips(r)
        \/ RunReviewFileCalls(r)
        \/ RunAnalyzeCodeReturns(r)
        \/ RunAnalyzeCodeThrows(r)
        \/ RunLoopEndsNothingToPost(r)
        \/ RunLoopEndsPostReviews(r)
        \/ RunPostReviewCommentReturns(r)
        \/ RunPostReviewCommentThrows(r)

SpecWebhook == InitWebhook /\ [][NextWebhook]_vars

----------------------------------------------------------------------------
(* OpenAIService.makeOpenAIRequest: one call, with the calls it makes to   *)
(* itself. A frame of the stack is one invocation: its model, and fb, the  *)
(* position in fallbackModels of the fallback it awaits (0: it awaits its  *)
(* own provider request).                                                  *)

\* this.fallbackModels
fallbackModels == <<"gpt-3.5-turbo">>

\* the values OPENAI_MODEL can give this.model ("": not set)
Models == {"gpt-4", "gpt-4o", "gpt-3.5-turbo", ""}

\* the prompts analyzeCode can build and the responses the provider can give
Prompts == {"p1", "p2", "p3"}
Responses == {"r1", "r2"}

DoesNotExist == <<"d", "o", "e", "s", " ", "n", "o", "t", " ", "e", "x", "i", "s", "t">>
DoNotHaveAccess == <<"d", "o", " ", "n", "o", "t", " ", "h", "a", "v", "e", " ", "a",
                     "c", "c", "e", "s", "s">>

\* the errors chat.completions.create can reject with
ProviderErrors ==
    {[status |-> 404, message |-> <<"m", "o", "d", "e", "l", " ", "d", "o", "e", "s",
                                    " ", "n", "o", "t", " ", "e", "x", "i", "s", "t">>],
     [status |-> 404, message |-> <<"y", "o", "u", " ", "d", "o", " ", "n", "o", "t",
                                    " ", "h", "a", "v", "e", " ", "a", "c", "c", "e", "s", "s">>],
     [status |-> 404, message |-> <<"n", "o", "t", " ", "f", "o", "u", "n", "d">>],
     [status |-> 404],
     [status |-> 403, message |-> <<"y", "o", "u", " ", "d", "o", " ", "n", "o", "t",
                                    " ", "h", "a", "v", "e", " ", "a", "c", "c", "e", "s", "s">>],
     [status |-> 429, message |-> <<"r", "a", "t", "e", " ", "l", "i", "m", "i", "t">>],
     [message |-> <<"f", "e", "t", "c", "h", " ", "f", "a", "i", "l", "e", "d">>]}

\* error.status === 404 && (error.message?.includes('does not exist') ||
\* error.message?.includes('do not have access'))
modelNotAvailable(error) ==
    /\ "status" \in DOMAIN error
    /\ error.status = 404
    /\ "message" \in DOMAIN error
    /\ \/ includes(error.message, DoesNotExist)
       \/ includes(error.message, DoNotHaveAccess)

\* new Error(`None of the available models (${model}, ...) are accessible ...`)
noneAvailable(m) == [noneOf |-> m]

\* the stack without its innermost frame
callers(st) == SubSeq(st, 1, Len(st) - 1)

RECURSIVE tryFallbacksMutNoSelfTest(_, _)
RECURSIVE tryFallbacks(_, _)
RECURSIVE thrownTo(_, _)

\* the for loop over this.fallbackModels without the test fallbackModel !== model
tryFallbacksMutNoSelfTest(st, i) ==
    LET top == st[Len(st)]
    IN  IF i > Len(fallbackModels)
        THEN thrownTo(callers(st), noneAvailable(top.model))
        ELSE [stack   |-> callers(st) \o <<[top EXCEPT !.fb = i]>>
                              \o <<[model |-> fallbackModels[i], fb |-> 0]>>,
              settled |-> FALSE]

\* the for loop over this.fallbackModels of the innermost frame, from
\* position i on: the next recursive call, or the throw after the loop
tryFallbacks(st, i) ==
    LET top == st[Len(st)]
    IN  IF i > Len(fallbackModels)
        THEN thrownTo(callers(st), noneAvailable(top.model))
        ELSE IF fallbackModels[i] # top.model
        THEN [stack   |-> callers(st) \o <<[top EXCEPT !.fb = i]>>
                              \o <<[model |-> fallbackModels[i], fb |-> 0]>>,
              settled |-> FALSE]
        ELSE tryFallbacks(st, i + 1)

\* an invocation threw err to the frames st: the call rejects when there is
\* none, else the innermost catches it as fallbackError and its loop goes on
thrownTo(st, err) ==
    IF Len(st) = 0
    THEN [stack |-> <<>>, settled |-> TRUE, error |-> err]
    ELSE tryFallbacks(st, st[Len(st)].fb + 1)

\* the catch of the innermost frame
catchOf(st, error) ==
    IF modelNotAvailable(error)
    THEN tryFallbacks(st, 1)
    ELSE thrownTo(callers(st), error)

\* what the makeOpenAIRequest actions leave alone
beyondRequest == <<avars, rvars, outFiles, outMaps, runs, sink>>

\* makeOpenAIRequest(prompt, context) up to await chat.completions.create
CallMakeOpenAIRequest ==
    /\ opc = "idle"
    /\ stack' = <<[model |-> model, fb |-> 0]>>
    /\ requests' = <<[model |-> model, prompt |-> prompt]>>
    /\ opc' = "awaiting"
    /\ UNCHANGED <<model, prompt, caught, outcome>>
    /\ UNCHANGED beyondRequest

\* chat.completions.create resolves: the innermost invocation returns the
\* response and every caller returns what it awaited
CreateResolves ==
    /\ opc = "awaiting"
    /\ \E r \in Responses :
          outcome' = [kind |-> "response", body |-> r,
                      from |-> stack[Len(stack)].model]
    /\ stack' = <<>>
    /\ opc' = "returned"
    /\ UNCHANGED <<model, prompt, requests, caught>>
    /\ UNCHANGED beyondRequest

\* chat.completions.create rejects: the catch of the innermost invocation
\* runs, up to the next provider request or to the rejection of the call
CreateRejects ==
    /\ opc = "awaiting"
    /\ \E error \in ProviderErrors :
          LET c == catchOf(stack, error)
          IN  /\ caught' = Append(caught, error)
              /\ stack' = c.stack
              /\ IF c.settled
                 THEN /\ outcome' = [kind |-> "error", error |-> c.error]
                      /\ opc' = "rejected"
                      /\ requests' = requests
                 ELSE /\ outcome' = outcome
                      /\ opc' = "awaiting"
                      /\ requests' = Append(requests,
                                            [model  |-> c.stack[Len(c.stack)].model,
                                             prompt |-> prompt])
    /\ UNCHANGED <<model, prompt>>
    /\ UNCHANGED beyondRequest

\* a constructed OpenAIService and the prompt of one analyzeCode call
InitRequest ==
    /\ NoReview
    /\ model \in Models
    /\ prompt \in Prompts
    /\ stack = <<>>
    /\ requests = <<>>
    /\ caught = <<>>
    /\ opc = "idle"
    /\ outcome = Unsettled
    /\ outFiles = <<>>
    /\ outMaps = <<>>
    /\ runs = <<>>
    /\ sink = <<>>
    /\ diff = <<>>
    /\ files = <<>>
    /\ sel = 0
    /\ patch = <<>>
    /\ lines = <<>>
    /\ idx = 0
    /\ currentLine = 0
    /\ lineNumbers = <<>>
    /\ pc = "idle"

NextRequest == CallMakeOpenAIRequest \/ CreateResolves \/ CreateRejects

SpecRequest == InitRequest /\ [][NextRequest]_vars

----------------------------------------------------------------------------
(* Line classes as the specification words them.                           *)

IsHunkHeaderLine(l) == hunkHeader(l).matched
IsAdditionLine(l) == startsWith(l, <<"+">>) /\ ~startsWith(l, <<"+", "+", "+">>)
IsDeletionLine(l) == startsWith(l, <<"-">>) /\ ~startsWith(l, <<"-", "-", "-">>)
IsFileMarkerLine(l) == startsWith(l, <<"+", "+", "+">>) \/ startsWith(l, <<"-", "-", "-">>)
IsContextLine(l) == startsWith(l, <<" ">>)

PatchLines == split(patch, "\n")

\* positions of the lines of ls that satisfy P, ascending
Positions(ls, P(_)) ==
    LET S == {i \in 1..Len(ls) : P(ls[i])}
    IN  [k \in 1..Cardinality(S) |->
            CHOOSE i \in S : Cardinality({j \in S : j < i}) = k - 1]

HasHeaderBefore(ls, i) == \E h \in 1..(i - 1) : IsHunkHeaderLine(ls[h])

NearestHeader(ls, i) ==
    CHOOSE h \in 1..(i - 1) :
        /\ IsHunkHeaderLine(ls[h])
        /\ \A g \in (h + 1)..(i - 1) : ~IsHunkHeaderLine(ls[g])

\* newStart of the nearest preceding header plus the context and addition
\* lines between that header and line i
AnchoredNumber(ls, i) ==
    LET h == NearestHeader(ls, i)
    IN  parseInt(hunkHeader(ls[h]).group1)
          + Cardinality({j \in (h + 1)..(i - 1) :
                            IsContextLine(ls[j]) \/ IsAdditionLine(ls[j])})

WellFormedPatch(ls) ==
    /\ \A i \in 1..Len(ls) :
          \/ IsHunkHeaderLine(ls[i])
          \/ IsContextLine(ls[i])
          \/ IsAdditionLine(ls[i])
          \/ IsDeletionLine(ls[i])
    /\ \A i \in 1..Len(ls) : IsAdditionLine(ls[i]) => HasHeaderBefore(ls, i)

ExpectedMapping(ls) ==
    LET pos == Positions(ls, IsAdditionLine)
    IN  [k \in 1..Len(pos) |-> AnchoredNumber(ls, pos[k])]

----------------------------------------------------------------------------
(* Claims about extractLineNumbers, checked under SpecPatch.               *)

\* C1: for a patch made only of well-formed hunk headers, context, addition
\* and deletion lines (every addition having a header before it),
\* extractLineNumbers returns one entry per addition in patch order, each
\* equal to the newStart of the nearest preceding header plus the number of
\* context and addition lines in between (deletions add nothing); the quoted
\* seven-line patch maps to [2, 4].
C1_AnchoredMapping ==
    pc = "returned" =>
        /\ WellFormedPatch(PatchLines) => lineNumbers = ExpectedMapping(PatchLines)
        /\ patch = PatchExample1 => lineNumbers = <<2, 4>>

C1_Witness ==
    /\ pc = "returned"
    /\ patch = PatchExample1
    /\ WellFormedPatch(PatchLines)
    /\ lineNumbers = <<2, 4>>

\* C2: every line matching the hunk-header grammar sets the running counter
\* to that header's newStart, whatever the counter had reached, and emits no
\* mapping entry; the quoted two-hunk patch maps to [2, 21].
C2_HeaderResetsCounter ==
    /\ [](pc = "returned" /\ patch = PatchExample2 => lineNumbers = <<2, 21>>)
    /\ [][(pc = "loop" /\ idx <= Len(lines) /\ IsHunkHeaderLine(lines[idx]))
            => /\ currentLine' = parseInt(hunkHeader(lines[idx]).group1)
               /\ lineNumbers' = lineNumbers]_vars

C2_Witness ==
    /\ pc = "loop"
    /\ patch = PatchExample2
    /\ idx = 5
    /\ IsHunkHeaderLine(lines[4])
    /\ currentLine = 20
    /\ lineNumbers = <<2>>

\* C3: a file-marker line ('+++' or '---') emits no mapping entry and leaves
\* the running counter unchanged.
C3_FileMarkerIgnored ==
    [][(pc = "loop" /\ idx <= Len(lines) /\ IsFileMarkerLine(lines[idx]))
         => /\ currentLine' = currentLine
            /\ lineNumbers' = lineNumbers]_vars

\* C6 as stated: a patch with no line matching the hunk-header grammar maps
\* to the empty mapping, whatever other lines it contains.
C6_NoHeaderEmptyMapping ==
    (pc = "returned" /\ \A i \in 1..Len(PatchLines) : ~IsHunkHeaderLine(PatchLines[i]))
        => lineNumbers = <<>>

\* C6 amended: a patch with no line matching the hunk-header grammar yields
\* one entry per addition line, so its mapping is empty exactly when it has
\* no addition line; the empty patch maps to the empty mapping.
C6_NoHeaderOneEntryPerAddition ==
    (pc = "returned" /\ \A i \in 1..Len(PatchLines) : ~IsHunkHeaderLine(PatchLines[i]))
        => /\ Len(lineNumbers) = Len(Positions(PatchLines, IsAdditionLine))
           /\ patch = <<>> => lineNumbers = <<>>

C6_Witness ==
    /\ pc = "returned"
    /\ \A i \in 1..Len(PatchLines) : ~IsHunkHeaderLine(PatchLines[i])
    /\ \E i \in 1..Len(PatchLines) : IsFileMarkerLine(PatchLines[i])
    /\ Len(lineNumbers) = 2

----------------------------------------------------------------------------
(* The file sections of the diff, line by line, as the specification words *)
(* them.                                                                   *)

\* the physical lines of the diff (each is ended by a newline)
DiffLines == LET t == split(diff, "\n") IN SubSeq(t, 1, Len(t) - 1)

IsSeparatorLine(l) == startsWith(l, DiffGit)
IsStatusMarkerLine(l) ==
    startsWith(l, NewFileMode) \/ startsWith(l, DeletedFileMode) \/ startsWith(l, RenameFrom)
StartsWithAtAt(l) == startsWith(l, <<"@", "@">>)

\* section k as lines: what follows the separator on its line, then the
\* lines up to the next separator
SectionWhitespaceOnly(sl) == \A i \in 1..Len(sl) : trimIsEmpty(sl[i])

\* the new path of a two-path header " a/<old> b/<new>"
SectionFilename(sl) ==
    LET h == sl[1]
        ps == {p \in 4..(Len(h) - 3) : occursAt(h, p, <<" ", "b", "/">>)}
    IN  IF startsWith(h, <<" ", "a", "/">>) /\ ps # {}
        THEN SubSeq(h, greatest(ps) + 3, Len(h))
        ELSE <<>>

SectionKept(sl) == ~SectionWhitespaceOnly(sl) /\ SectionFilename(sl) # <<>>

\* the sections of the diff in order (lines), the text before the first
\* separator (leading), and the sections that are not whitespace-only and
\* have a filename, in order (kept)
Sectioning ==
    LET dl == DiffLines
        st == Positions(dl, IsSeparatorLine)
        n == Len(st)
        secs == [k \in 1..n |->
                    LET to == IF k < n THEN st[k + 1] - 1 ELSE Len(dl)
                    IN  <<SubSeq(dl[st[k]], Len(DiffGit) + 1, Len(dl[st[k]]))>>
                            \o SubSeq(dl, st[k] + 1, to)]
        keptAt == Positions(secs, SectionKept)
    IN  [lines   |-> secs,
         leading |-> IF n = 0 THEN dl ELSE SubSeq(dl, 1, st[1] - 1),
         kept    |-> [j \in 1..Len(keptAt) |-> secs[keptAt[j]]]]

\* the lines of a section before its first line satisfying P
HeaderPart(ls, P(_)) ==
    LET S == {i \in 1..Len(ls) : P(ls[i])}
    IN  IF S = {} THEN ls ELSE SubSeq(ls, 1, least(S) - 1)

HasLine(ls, P(_)) == \E i \in 1..Len(ls) : P(ls[i])

\* the status the last marker of the header lines gives
MarkerStatus(l) ==
    IF startsWith(l, NewFileMode) THEN "added"
    ELSE IF startsWith(l, DeletedFileMode) THEN "deleted"
    ELSE "renamed"

ExpectedStatus(hl) ==
    LET S == {i \in 1..Len(hl) : IsStatusMarkerLine(hl[i])}
    IN  IF S = {} THEN "modified" ELSE MarkerStatus(hl[greatest(S)])

Parsed == pc \in {"parsed", "reconciled"}

----------------------------------------------------------------------------
(* Claims about parseFileInfo and parseGitDiff, checked under SpecDiff.    *)

\* C4: for every FileChange parseFileInfo produces, the number of entries
\* extractLineNumbers returns for its patch equals its additions count.
C4_MappingLengthIsAdditions ==
    pc = "reconciled" => Len(lineNumbers) = files[sel].additions

C4_Witness ==
    /\ pc = "reconciled"
    /\ files[sel].additions = 1
    /\ HasLine(split(patch, "\n"), IsFileMarkerLine)
    /\ Len(lineNumbers) = 1

\* C5: additions equals the number of patch lines that begin with '+' but
\* not '+++', deletions the number that begin with '-' but not '---'; marker,
\* context and hunk-header lines are never counted.
C5_CountsExcludeMarkers ==
    Parsed =>
        \A j \in 1..Len(files) :
            LET pl == split(files[j].patch, "\n")
            IN  /\ files[j].additions = Len(Positions(pl, IsAdditionLine))
                /\ files[j].deletions = Len(Positions(pl, IsDeletionLine))

C5_Witness ==
    /\ pc = "parsed"
    /\ \E j \in 1..Len(files) :
          /\ HasLine(split(files[j].patch, "\n"), IsFileMarkerLine)
          /\ files[j].additions + files[j].deletions = 1

\* C7: parseGitDiff returns exactly one FileChange, in document order, for
\* each section that is not whitespace-only and has a filename, and none for
\* any other section; N sections of which one is whitespace-only and the rest
\* have filenames yield N-1 entries, each with a non-empty filename.
C7_OneFileChangePerNamedSection ==
    Parsed =>
        LET sg == Sectioning
            n == Len(sg.lines)
        IN  /\ Len(files) = Len(sg.kept)
            /\ \A j \in 1..Len(files) :
                  /\ j <= Len(sg.kept) => files[j].filename = SectionFilename(sg.kept[j])
                  /\ files[j].filename # <<>>
            /\ ( /\ sg.leading = <<>>
                 /\ Cardinality({k \in 1..n : SectionWhitespaceOnly(sg.lines[k])}) = 1
                 /\ \A k \in 1..n :
                       SectionWhitespaceOnly(sg.lines[k]) \/ SectionKept(sg.lines[k]) )
               => Len(files) = n - 1

C7_Witness ==
    /\ pc = "parsed"
    /\ LET sg == Sectioning
       IN  /\ Len(sg.lines) = 3
           /\ sg.leading = <<>>
           /\ SectionKept(sg.lines[1])
           /\ SectionWhitespaceOnly(sg.lines[2])
           /\ SectionKept(sg.lines[3])
    /\ Len(files) = 2
    /\ files[1].filename # files[2].filename

\* the three parts of C8 for a FileChange f and the lines sl of its section,
\* the end of the header lines being the first line that satisfies P
StatusFollowsHeader(f, sl, P(_)) ==
    LET hl == HeaderPart(sl, P)
    IN  /\ f.status = ExpectedStatus(hl)
        /\ ~HasLine(hl, IsStatusMarkerLine) => f.status = "modified"
        /\ (\E i \in 1..Len(hl) :
               /\ startsWith(hl[i], NewFileMode)
               /\ \A m \in (i + 1)..Len(hl) :
                     ~startsWith(hl[m], DeletedFileMode) /\ ~startsWith(hl[m], RenameFrom))
             => f.status = "added"

HunklessIsEmptyPatch(P(_)) ==
    LET sg == Sectioning
    IN  /\ Len(files) = Len(sg.kept)
        /\ \A j \in 1..Len(files) :
              (j <= Len(sg.kept) /\ ~HasLine(sg.kept[j], P))
                  => /\ files[j].patch = <<>>
                     /\ files[j].additions = 0
                     /\ files[j].deletions = 0

----------------------------------------------------------------------------
(* Claims about reviewPR, checked under Spec.                              *)

\* the for loop of reviewPR is over
LoopOver ==
    \/ rpc \in {"nothingToPost", "displayed", "posting", "published"}
    \/ rpc = "failed" /\ failCause = "post"

\* the filenames of the calls of cs that ended as r, in call order
RECURSIVE CallsEnded(_, _)
CallsEnded(cs, r) ==
    IF Len(cs) = 0 THEN <<>>
    ELSE (IF Head(cs).result = r THEN <<Head(cs).filename>> ELSE <<>>)
             \o CallsEnded(Tail(cs), r)

\* the comments of the calls that returned an answer, in call order
RECURSIVE CommentsOfReturned(_)
CommentsOfReturned(cs) ==
    IF Len(cs) = 0 THEN <<>>
    ELSE (IF Head(cs).result = "returned"
          THEN parseAnalysisToComments(Head(cs).answer, [filename |-> Head(cs).filename])
          ELSE <<>>)
             \o CommentsOfReturned(Tail(cs))

\* the files within the cap that reviewFile sends to the issue finder
RECURSIVE AnalyzableNames(_)
AnalyzableNames(fs) ==
    IF Len(fs) = 0 THEN <<>>
    ELSE (IF reachesAnalyzeCode(Head(fs)) THEN <<Head(fs).filename>> ELSE <<>>)
             \o AnalyzableNames(Tail(fs))

\* C10: when the issue-finder call for a file throws, the failure is caught
\* and reported for that file, the review does not fail because of it, every
\* remaining file within the cap is still analyzed, and the comments of the
\* files that succeeded are still published (displayed in a dry run, posted
\* otherwise, a failing post being the only thing that stops the posting).
C10_PerFileFailureIsContained ==
    /\ failures = CallsEnded(calls, "threw")
    /\ rpc = "failed" => failCause \in {"details", "diff", "post"}
    /\ LoopOver =>
          /\ [k \in 1..Len(calls) |-> calls[k].filename] = AnalyzableNames(cappedFiles)
          /\ \A k \in 1..Len(calls) : calls[k].result # "pending"
          /\ flatMapComments(reviews) = CommentsOfReturned(calls)
    /\ rpc = "published" => posted = CommentsOfReturned(calls)
    /\ rpc = "displayed" => displayed = CommentsOfReturned(calls)
    /\ rpc \in {"posting", "failed"} =>
          posted = SubSeq(CommentsOfReturned(calls), 1, Len(posted))

C10_Witness ==
    /\ rpc = "published"
    /\ Len(calls) = 2
    /\ calls[1].result = "threw"
    /\ calls[2].result = "returned"
    /\ failures = <<calls[1].filename>>
    /\ Len(posted) = 2
    /\ posted[1].path = calls[2].filename

\* C11: when fetching the PR details or the PR diff fails, reviewPR fails as a
\* whole and nothing partial exists: the issue finder was never invoked, no
\* review was collected, and no comment was posted or displayed.
C11_FetchFailureFailsWholeReview ==
    failCause \in {"details", "diff"} =>
        /\ rpc = "failed"
        /\ calls = <<>>
        /\ reviews = <<>>
        /\ failures = <<>>
        /\ posted = <<>>
        /\ postedTo = <<>>
        /\ displayed = <<>>

C11_Witness ==
    /\ rpc = "failed"
    /\ failCause = "diff"
    /\ calls = <<>>
    /\ posted = <<>>
    /\ displayed = <<>>

\* C12: a review fails only before any per-file work began: a failed review
\* has not entered the file loop, has made no issue-finder call and has
\* delivered no comment.
C12_FailsOnlyBeforePerFileWork ==
    rpc = "failed" =>
        /\ fileIdx = 0
        /\ calls = <<>>
        /\ posted = <<>>

\* the first n entries of the list fs
FirstEntries(fs, n) == SubSeq(fs, 1, IF Len(fs) > n THEN n ELSE Len(fs))

\* the filenames of the files of fs
NamesOf(fs) == {fs[i].filename : i \in 1..Len(fs)}

\* C13: in one reviewPR run the issue finder is invoked for at most
\* maxFilesPerReview files, every analyzed file is one of the first
\* maxFilesPerReview entries of the filtered list, the loop never goes beyond
\* them, and no failure is reported for a file beyond the cap.
C13_AtMostCapFilesAnalyzed ==
    LET first == FirstEntries(filteredFiles, maxFilesPerReview)
    IN  /\ Len(calls) <= maxFilesPerReview
        /\ fileIdx <= Len(first) + 1
        /\ \A k \in 1..Len(calls) :
              \E i \in 1..Len(first) :
                  /\ first[i].filename = calls[k].filename
                  /\ first[i].patch = calls[k].patch
        /\ \A k \in 1..Len(failures) : failures[k] \in NamesOf(first)
        /\ rpc = "failed" => failCause \in {"details", "diff", "post"}

C13_Witness ==
    /\ rpc = "published"
    /\ Len(filteredFiles) = maxFilesPerReview + 1
    /\ reachesAnalyzeCode(filteredFiles[maxFilesPerReview + 1])
    /\ \A k \in 1..Len(calls) :
          calls[k].filename # filteredFiles[maxFilesPerReview + 1].filename
    /\ Len(calls) > 0
    /\ failures = <<>>

\* the extension of the file is on the allow-list
HasRelevantExtension(f) == isRelevantFile(getFileExtension(f.filename))

\* C14: the issue finder is never invoked for a file whose extension is
\* outside the allow-list, and the cap is applied to what remains after the
\* relevance filter: the files the loop considers are the first
\* maxFilesPerReview relevant files of the diff, whatever irrelevant files
\* precede them, and once the loop is over each analyzable one of them was
\* sent to the issue finder.
C14_IrrelevantFilesUseNoBudget ==
    LET relevant == SelectSeq(files, HasRelevantExtension)
        first == FirstEntries(relevant, maxFilesPerReview)
    IN  /\ \A k \in 1..Len(calls) :
              /\ isRelevantFile(getFileExtension(calls[k].filename))
              /\ calls[k].filename \in NamesOf(first)
        /\ LoopOver =>
              [k \in 1..Len(calls) |-> calls[k].filename] = AnalyzableNames(first)

C14_Witness ==
    /\ rpc = "published"
    /\ Len(files) = maxFilesPerReview + 1
    /\ ~HasRelevantExtension(files[1])
    /\ Len(calls) = maxFilesPerReview
    /\ \A k \in 1..Len(calls) : calls[k].filename = files[k + 1].filename

\* the patch of the file is longer than maxDiffSize
Oversized(f) == Len(f.patch) > maxDiffSize

\* C15: a file whose patch is longer than maxDiffSize is never sent to the
\* issue finder; the skip is not fatal: no failure is reported for the file,
\* the review does not fail because of it, and once the loop is over every
\* other file within the cap that has a relevant extension and a non-empty
\* patch was sent to the issue finder.
C15_OversizedPatchSkippedNotFatal ==
    LET first == FirstEntries(filteredFiles, maxFilesPerReview)
    IN  /\ \A k \in 1..Len(calls) : Len(calls[k].patch) <= maxDiffSize
        /\ \A i \in 1..Len(first) :
              Oversized(first[i]) =>
                  \A k \in 1..Len(failures) : failures[k] # first[i].filename
        /\ rpc = "failed" => failCause \in {"details", "diff", "post"}
        /\ LoopOver =>
              \A i \in 1..Len(first) :
                  (/\ HasRelevantExtension(first[i])
                   /\ first[i].patch # <<>>
                   /\ ~Oversized(first[i]))
                      => \E k \in 1..Len(calls) :
                            /\ calls[k].filename = first[i].filename
                            /\ calls[k].result # "pending"

C15_Witness ==
    /\ rpc = "published"
    /\ Len(filteredFiles) >= 2
    /\ Oversized(filteredFiles[1])
    /\ Len(calls) = 1
    /\ calls[1].filename = filteredFiles[2].filename
    /\ calls[1].result = "returned"
    /\ failures = <<>>

\* C16: within one reviewPR run the files are processed one after the other
\* in filtered-list order: the calls made so far are for files at increasing
\* positions of the filtered list, every call but the last has completed or
\* failed, so at most one call is outstanding, and a call is outstanding only
\* while reviewPR awaits it.
C16_OneOutstandingCallInListOrder ==
    /\ \A k \in 1..(Len(calls) - 1) : calls[k].result \in {"returned", "threw"}
    /\ Cardinality({k \in 1..Len(calls) : calls[k].result = "pending"}) <= 1
    /\ (\E k \in 1..Len(calls) : calls[k].result = "pending") <=> rpc = "analyzing"
    /\ \E at \in [1..Len(calls) -> 1..Len(filteredFiles)] :
          /\ \A j, k \in 1..Len(calls) : j < k => at[j] < at[k]
          /\ \A k \in 1..Len(calls) :
                /\ filteredFiles[at[k]].filename = calls[k].filename
                /\ filteredFiles[at[k]].patch = calls[k].patch
                /\ at[k] <= fileIdx

C16_Witness ==
    /\ rpc = "analyzing"
    /\ Len(calls) = 2
    /\ calls[1].result \in {"returned", "threw"}
    /\ calls[2].result = "pending"
    /\ calls[1].filename = filteredFiles[1].filename
    /\ calls[2].filename = filteredFiles[2].filename
    /\ calls[1].filename # calls[2].filename

\* the issues the issue finder returned, each with the file it was found in,
\* in call order and then issue order
RECURSIVE IssuesOfReturned(_)
IssuesOfReturned(cs) ==
    IF Len(cs) = 0 THEN <<>>
    ELSE (IF Head(cs).result = "returned" /\ "issues" \in DOMAIN Head(cs).answer
          THEN [k \in 1..Len(Head(cs).answer.issues) |->
                   [filename |-> Head(cs).filename, issue |-> Head(cs).answer.issues[k]]]
          ELSE <<>>)
             \o IssuesOfReturned(Tail(cs))

\* C17: in a review that is not a dry run and in which every post succeeded,
\* the comment sink has received exactly one record per issue the issue finder
\* returned for the successfully analyzed files and no other record, each with
\* the filename of the issue's file as its path, in file order and then issue
\* order, each addressed to the pull request under review.
C17_SinkReceivesOneRecordPerIssue ==
    (rpc = "published" /\ ~dryRun) =>
        LET found == IssuesOfReturned(calls)
        IN  /\ Len(posted) = Len(found)
            /\ \A k \in 1..Len(posted) :
                  /\ posted[k].path = found[k].filename
                  /\ posted[k].body.title = found[k].issue.title
            /\ postedTo = [k \in 1..Len(posted) |-> prNumber]

C17_Witness ==
    /\ rpc = "published"
    /\ ~dryRun
    /\ Len(calls) = 2
    /\ calls[1].result = "returned"
    /\ calls[2].result = "returned"
    /\ calls[1].filename # calls[2].filename
    /\ Len(posted) = 3
    /\ posted[1].path = calls[1].filename
    /\ posted[2].path = calls[1].filename
    /\ posted[3].path = calls[2].filename
    /\ postedTo = <<prNumber, prNumber, prNumber>>

\* the issue reports a line
ReportsLine(issue) == "line" \in DOMAIN issue

\* the LineMapping of the file the k-th review is about
MappingOfReview(k) ==
    LET c == CHOOSE j \in 1..Len(calls) : calls[j].filename = reviews[k].filename
    IN  extractLineNumbers(calls[c].patch)

\* C18 (as stated): for every issue the issue finder returned, the line of the
\* resulting ReviewComment is the issue's reported line, never replaced.
C18_LinePassedThroughUncorrected ==
    \A r \in 1..Len(reviews) :
        /\ Len(reviews[r].comments) = Len(reviews[r].analysis.issues)
        /\ \A k \in 1..Len(reviews[r].comments) :
              ReportsLine(reviews[r].analysis.issues[k]) =>
                  reviews[r].comments[k].line = reviews[r].analysis.issues[k].line

\* C18 (amended): every issue the issue finder returned yields one
\* ReviewComment; its line is the issue's reported line whenever that line is
\* not 0, whether or not the line is in the file's LineMapping, and it is 1
\* when the issue reports line 0 or no line.
C18_LinePassedThroughUnlessZeroOrAbsent ==
    \A r \in 1..Len(reviews) :
        /\ Len(reviews[r].comments) = Len(reviews[r].analysis.issues)
        /\ \A k \in 1..Len(reviews[r].comments) :
              LET issue == reviews[r].analysis.issues[k]
              IN  reviews[r].comments[k].line =
                      IF ReportsLine(issue) /\ issue.line # 0 THEN issue.line ELSE 1

C18_Witness ==
    /\ rpc = "published"
    /\ Len(reviews) = 1
    /\ Len(posted) = 2
    /\ reviews[1].analysis.issues[1].line = 99
    /\ \A k \in 1..Len(MappingOfReview(1)) : MappingOfReview(1)[k] # 99
    /\ posted[1].line = 99
    /\ reviews[1].analysis.issues[2].line = 0
    /\ posted[2].line = 1

\* C19: in a dry run reviewPR never posts to GitHub: postReviews is not
\* entered, postReviewComment is not called and the sink receives nothing,
\* however many comments the review collected; the comments are displayed.
C19_DryRunNeverPosts ==
    dryRun =>
        /\ posted = <<>>
        /\ postedTo = <<>>
        /\ postIdx = 0
        /\ rpc \notin {"posting", "published"}
        /\ failCause # "post"
        /\ rpc = "displayed" =>
              /\ Len(displayed) > 0
              /\ displayed = flatMapComments(reviews)

C19_Witness ==
    /\ dryRun
    /\ rpc = "displayed"
    /\ Len(reviews) = 2
    /\ Len(displayed) = 3
    /\ posted = <<>>
    /\ postIdx = 0

----------------------------------------------------------------------------
(* A malformed hunk header in extractLineNumbers, checked under SpecPatch. *)

\* C20: in extractLineNumbers a line that starts with '@@' but fails the
\* hunk-header grammar does not re-anchor the counter and emits no entry: it
\* increments the existing counter by one like any other line, and the forEach
\* goes on to the next line without an error.
C20_MalformedHeaderIsOrdinaryLine ==
    /\ [](pc \in {"call", "loop", "returned"})
    /\ [][(/\ pc = "loop"
           /\ idx <= Len(lines)
           /\ StartsWithAtAt(lines[idx])
           /\ ~IsHunkHeaderLine(lines[idx]))
            => /\ currentLine' = currentLine + 1
               /\ lineNumbers' = lineNumbers
               /\ idx' = idx + 1
               /\ pc' = "loop"]_vars

C20_Witness ==
    /\ pc = "returned"
    /\ lines = <<HunkB, Context, HunkBad, Added>>
    /\ currentLine = 23
    /\ lineNumbers = <<22>>

----------------------------------------------------------------------------
(* Repeated analyzer calls, checked under SpecTwice.                       *)

----------------------------------------------------------------------------
(* Further claims about reviewPR, checked under Spec.                      *)

\* the Publish step has begun: postReviews or displayReviews was entered
PublishBegun ==
    \/ rpc \in {"posting", "published", "displayed"}
    \/ postIdx > 0
    \/ posted # <<>>
    \/ displayed # <<>>

\* C22: the Publish step comes strictly after the whole per-file loop: when
\* a comment is posted or displayed, or postReviews was entered, the loop has
\* gone past every file within the cap and each of them was analyzed, skipped
\* or recorded as failed; and when the issue finder is called the diff was
\* already split and filtered.
C22_PublishAfterWholeLoop ==
    LET first == FirstEntries(filteredFiles, maxFilesPerReview)
    IN  /\ PublishBegun =>
              /\ fileIdx = Len(first) + 1
              /\ \A k \in 1..Len(calls) : calls[k].result \in {"returned", "threw"}
              /\ [k \in 1..Len(calls) |-> calls[k].filename] = AnalyzableNames(first)
              /\ failures = CallsEnded(calls, "threw")
        /\ calls # <<>> =>
              /\ rpc \notin {"details", "diff"}
              /\ files = parseGitDiff(diff)
              /\ filteredFiles = filterRelevantFiles(files)

C22_Witness ==
    /\ rpc = "posting"
    /\ Len(filteredFiles) >= 2
    /\ fileIdx = 3
    /\ Len(calls) = 2
    /\ calls[1].result = "returned"
    /\ calls[2].result = "threw"
    /\ Len(posted) = 1
    /\ postIdx = 2

\* the FileChange has no hunks
Hunkless(f) == f.patch = <<>>

\* C23: the issue finder is never invoked with an empty patch: a relevant
\* file without hunks is skipped by reviewFile, yields no review and no
\* failure, and still takes one of the maxFilesPerReview places, so the calls
\* and the hunkless files within the cap together never exceed the cap and a
\* file pushed beyond the cap by a hunkless one is not analyzed.
C23_EmptyPatchSkippedButCounted ==
    LET first == FirstEntries(filteredFiles, maxFilesPerReview)
        hunkless == {i \in 1..Len(first) : Hunkless(first[i])}
    IN  /\ \A k \in 1..Len(calls) :
              /\ calls[k].patch # <<>>
              /\ calls[k].filename \in NamesOf(first)
        /\ \A i \in hunkless :
              /\ \A k \in 1..Len(reviews) : reviews[k].filename # first[i].filename
              /\ \A k \in 1..Len(failures) : failures[k] # first[i].filename
        /\ Len(calls) + Cardinality(hunkless) <= maxFilesPerReview
        /\ rpc = "failed" => failCause \in {"details", "diff", "post"}

C23_Witness ==
    /\ rpc = "published"
    /\ Len(filteredFiles) = maxFilesPerReview + 1
    /\ Hunkless(filteredFiles[1])
    /\ HasRelevantExtension(filteredFiles[1])
    /\ Len(calls) = maxFilesPerReview - 1
    /\ calls[1].filename = filteredFiles[2].filename
    /\ reachesAnalyzeCode(filteredFiles[maxFilesPerReview + 1])
    /\ filteredFiles[maxFilesPerReview + 1].filename # calls[1].filename
    /\ Len(posted) > 0

----------------------------------------------------------------------------
(* Interleaved reviews, checked under SpecWebhook.                         *)

\* the comments the sink accepted from invocation r, in the order it got them
RECURSIVE SinkFrom(_, _)
SinkFrom(sk, r) ==
    IF Len(sk) = 0 THEN <<>>
    ELSE (IF Head(sk).by = r THEN <<Head(sk)>> ELSE <<>>) \o SinkFrom(Tail(sk), r)

\* C24: two reviewPR invocations on one PRReviewService that interleave at
\* their awaited calls share no review state: every call an invocation makes
\* is for a file of its own diff, the comments it has posted are those of the
\* answers to its own calls, in order and all of them once it is published,
\* and each was posted to its own pull request.
C24_InterleavedReviewsAreIndependent ==
    \A r \in DOMAIN runs :
        LET own == parseGitDiff(runs[r].diff)
            mine == SinkFrom(sink, r)
            expected == CommentsOfReturned(runs[r].calls)
        IN  /\ \A k \in 1..Len(runs[r].calls) :
                  \E i \in 1..Len(own) :
                      /\ own[i].filename = runs[r].calls[k].filename
                      /\ own[i].patch = runs[r].calls[k].patch
            /\ Len(mine) <= Len(expected)
            /\ \A k \in 1..Len(mine) :
                  /\ mine[k].comment = expected[k]
                  /\ mine[k].pull_number = runs[r].prNumber
            /\ runs[r].rpc = "published" => Len(mine) = Len(expected)

C24_Witness ==
    /\ DOMAIN runs = Runs
    /\ runs[1].rpc = "published"
    /\ runs[2].rpc = "published"
    /\ runs[1].prNumber # runs[2].prNumber
    /\ runs[1].diff # runs[2].diff
    /\ Len(sink) = 3
    /\ sink[1].by = 1
    /\ sink[2].by = 2
    /\ sink[3].by = 1
    /\ sink[1].comment.path # sink[2].comment.path

----------------------------------------------------------------------------
(* The model fallback of makeOpenAIRequest, checked under SpecRequest.     *)

\* the call has settled
Settled == opc \in {"returned", "rejected"}

\* the first provider request failed with the 404 'does not exist' / 'do not
\* have access' error and the configured model is not gpt-3.5-turbo
FallbackCase ==
    /\ Len(caught) >= 1
    /\ DOMAIN caught[1] = {"status", "message"}
    /\ caught[1].status = 404
    /\ \/ includes(caught[1].message, DoesNotExist)
       \/ includes(caught[1].message, DoNotHaveAccess)
    /\ model # "gpt-3.5-turbo"

\* C25: makeOpenAIRequest makes at most two provider requests and then
\* settles. When the configured model fails with the 404 'does not exist' /
\* 'do not have access' error and is not gpt-3.5-turbo, exactly one further
\* request is made, with gpt-3.5-turbo and the same prompt; its response is
\* returned when it succeeds, and when it fails too the call rejects with
\* the 'None of the available models' error. Any other error of the first
\* request is rethrown as it is, without a further request.
C25_AtMostOneFallbackRequest ==
    /\ Len(requests) <= 2
    /\ Len(stack) <= 2
    /\ opc = "awaiting" => Len(caught) = Len(requests) - 1
    /\ Settled => stack = <<>> /\ Len(requests) >= 1
    /\ Len(requests) >= 1 => requests[1] = [model |-> model, prompt |-> prompt]
    /\ Len(requests) = 2 <=> (FallbackCase /\ opc # "idle")
    /\ Len(requests) = 2 =>
          /\ requests[2] = [model |-> "gpt-3.5-turbo", prompt |-> prompt]
          /\ opc = "returned" =>
                /\ Len(caught) = 1
                /\ outcome.kind = "response"
                /\ outcome.from = "gpt-3.5-turbo"
          /\ opc = "rejected" =>
                /\ Len(caught) = 2
                /\ outcome = [kind |-> "error", error |-> [noneOf |-> model]]
    /\ (Settled /\ Len(caught) >= 1 /\ ~FallbackCase /\ model # "gpt-3.5-turbo") =>
          /\ Len(requests) = 1
          /\ outcome = [kind |-> "error", error |-> caught[1]]

C25_Witness ==
    /\ opc = "rejected"
    /\ model = "gpt-4"
    /\ Len(requests) = 2
    /\ requests[2].model = "gpt-3.5-turbo"
    /\ Len(caught) = 2
    /\ caught[2] \in {e \in ProviderErrors : "status" \in DOMAIN e /\ e.status = 429}
    /\ outcome = [kind |-> "error", error |-> [noneOf |-> "gpt-4"]]

====
